---- MODULE Spec2Model ----
(***************************************************************************)
(* A model of plox, the Python tree-walking interpreter for Lox:           *)
(* scanner -> parser -> resolver -> evaluator, driven by Lox.run.          *)
(*                                                                         *)
(* Conventions.  Source text is a sequence of one-character strings.       *)
(* Python indices are 0-based and kept as in the code; Ch(i) reads         *)
(* source[i].  A Python exception that no handler of the modelled code     *)
(* catches is recorded by name in the field/variable exc.                  *)
(***************************************************************************)
EXTENDS Integers, Sequences, FiniteSets, TLC

VARIABLES
    source,          \* Scanner.source
    start,           \* Scanner.start
    current,         \* Scanner.current
    line,            \* Scanner.line
    tokens,          \* Scanner.tokens, then Parser.tokens
    pcurrent,        \* Parser.current
    statements,      \* the list Parser.parse collects
    pc,              \* position of the running call
    exc,             \* name of the Python exception that escaped, or "none"
    reports,         \* lines written by Lox.report, as records
    hadErrorCls,     \* the class attribute Lox.hadError
    hadErrorSelf,    \* the instance attribute self.hadError of the Lox object
    hadRuntimeErrorCls, \* the class attribute Lox.hadRuntimeError
    runtimeReports,  \* lines written by Lox.reportRuntimeError, as records
    locals,          \* Interpreter.locals
    resolver,        \* the Resolver object: scopes, currentFunction, currentClass
    envs,            \* the Environment objects; envs[1] is Interpreter.globals
    instances,       \* the LoxInstance objects
    output,          \* lines written by print statements
    interpretCalls,  \* number of calls of Interpreter.interpret
    exitCode         \* <<n>> once runFile has called exit(n), else <<>>

scanVars == <<source, start, current, line>>
parseVars == <<pcurrent, statements>>
hostVars == <<reports, hadErrorCls>>
loxVars == <<hadErrorSelf, hadRuntimeErrorCls, runtimeReports, exitCode>>
interpreterVars == <<locals, envs, instances, output, interpretCalls>>
vars == <<scanVars, tokens, parseVars, hostVars, loxVars, interpreterVars, resolver, pc, exc>>

----------------------------------------------------------------------------
(* Bounds of the model                                                     *)

MaxSrcLen == 4

----------------------------------------------------------------------------
(* utils.py: character classes, TOKEN_MAP, KEYWORDS                        *)

NUL == "\\0"

Digits == {"0", "1", "2", "3", "4", "5", "6", "7", "8", "9"}

Letters == {"a", "b", "c", "d", "e", "f", "g", "h", "i", "j", "k", "l", "m",
            "n", "o", "p", "q", "r", "s", "t", "u", "v", "w", "x", "y", "z",
            "A", "B", "C", "D", "E", "F", "G", "H", "I", "J", "K", "L", "M",
            "N", "O", "P", "Q", "R", "S", "T", "U", "V", "W", "X", "Y", "Z",
            "_"}

is_alpha(c) == c \in Letters

is_num(c) == c \in Digits

is_alnum(c) == is_alpha(c) \/ is_num(c)

TOKEN_MAP(c) ==
    CASE c = "(" -> "LEFT_PAREN"
      [] c = ")" -> "RIGHT_PAREN"
      [] c = "{" -> "LEFT_BRACE"
      [] c = "}" -> "RIGHT_BRACE"
      [] c = "," -> "COMMA"
      [] c = "." -> "DOT"
      [] c = "-" -> "MINUS"
      [] c = "+" -> "PLUS"
      [] c = ";" -> "SEMICOLON"
      [] c = "*" -> "STAR"
      [] c = "!" -> "BANG"
      [] c = "=" -> "EQUAL"
      [] c = "<" -> "LESS"
      [] c = ">" -> "GREATER"
      [] c = "/" -> "SLASH"

KEYWORDS(text) ==
    CASE text = <<"a", "n", "d">> -> "AND"
      [] text = <<"c", "l", "a", "s", "s">> -> "CLASS"
      [] text = <<"e", "l", "s", "e">> -> "ELSE"
      [] text = <<"f", "a", "l", "s", "e">> -> "FALSE"
      [] text = <<"f", "o", "r">> -> "FOR"
      [] text = <<"f", "u", "n">> -> "FUN"
      [] text = <<"i", "f">> -> "IF"
      [] text = <<"n", "i", "l">> -> "NIL"
      [] text = <<"o", "r">> -> "OR"
      [] text = <<"p", "r", "i", "n", "t">> -> "PRINT"
      [] text = <<"r", "e", "t", "u", "r", "n">> -> "RETURN"
      [] text = <<"s", "u", "p", "e", "r">> -> "SUPER"
      [] text = <<"t", "h", "i", "s">> -> "THIS"
      [] text = <<"t", "r", "u", "e">> -> "TRUE"
      [] text = <<"v", "a", "r">> -> "VAR"
      [] text = <<"w", "h", "i", "l", "e">> -> "WHILE"
      [] OTHER -> "IDENTIFIER"

----------------------------------------------------------------------------
(* Python values that cross the host interface                             *)

None == [k |-> "none"]

PyInt(n) == [py |-> "int", v |-> n]

PyToken(t) == [py |-> "Token", v |-> t]

(* token.py: Token(token_type, lexeme, literal, line) *)
Token(type, lexeme, literal, ln) ==
    [type |-> type, lexeme |-> lexeme, literal |-> literal, line |-> ln]

(* The builtin Clock of Interpreter.__init__ *)
Clock == [k |-> "clock"]

(* dict[key] = value on a dict held as a function *)
Put(f, key, value) == [x \in DOMAIN f \cup {key} |-> IF x = key THEN value ELSE f[x]]

(* Environment(enclosing); enclosing is an index into envs, 0 for None *)
Environment(enclosing) == [values |-> <<>>, enclosing |-> enclosing]

(* Lox.__init__ with the class attributes of Lox and Interpreter:          *)
(* Interpreter.globals holds clock, Interpreter.locals is empty.           *)
(* resolver.py: the fields of Resolver(interpreter) after __init__ *)
NewResolver == [scopes |-> <<>>, currentFunction |-> "NONE", currentClass |-> "NONE"]

LoxInit ==
    /\ hadErrorSelf = FALSE
    /\ hadRuntimeErrorCls = FALSE
    /\ runtimeReports = <<>>
    /\ exitCode = <<>>
    /\ locals = <<>>
    /\ resolver = NewResolver
    /\ envs = <<[Environment(0) EXCEPT !.values = Put(@, <<"c", "l", "o", "c", "k">>, Clock)]>>
    /\ instances = <<>>
    /\ output = <<>>
    /\ interpretCalls = 0

----------------------------------------------------------------------------
(* lox.py: the static error sink.  A host state h is                       *)
(* [reports, hadError, exc].                                               *)

Lox_report(h, ln, where, message) ==
    [h EXCEPT !.reports = Append(@, [line |-> ln, where |-> where, message |-> message]),
              !.hadError = TRUE]

(* Lox.error reads token.token_type first: an int has no such attribute. *)
Lox_error(h, token, message) ==
    IF token.py # "Token"
    THEN [h EXCEPT !.exc = "AttributeError"]
    ELSE IF token.v.type = "EOF"
         THEN Lox_report(h, token.v.line, <<"at end">>, message)
         ELSE Lox_report(h, token.v.line, <<"at">> \o token.v.lexeme, message)

----------------------------------------------------------------------------
(* scanner.py.  A scanner state m is a record                              *)
(* [start, current, line, tokens, ch, ret, exc, reports, hadError]:        *)
(* ch is the character the last advance/peekNext returned, ret the         *)
(* boolean the last match returned.                                        *)

Ch(i) == source[i + 1]

(* source[a:b] *)
Slice(a, b) == SubSeq(source, a + 1, IF b > Len(source) THEN Len(source) ELSE b)

DigitVal(c) ==
    CASE c = "0" -> 0 [] c = "1" -> 1 [] c = "2" -> 2 [] c = "3" -> 3
      [] c = "4" -> 4 [] c = "5" -> 5 [] c = "6" -> 6 [] c = "7" -> 7
      [] c = "8" -> 8 [] c = "9" -> 9

RECURSIVE DigitsValue(_)
DigitsValue(s) ==
    IF s = <<>> THEN 0
    ELSE 10 * DigitsValue(SubSeq(s, 1, Len(s) - 1)) + DigitVal(s[Len(s)])

RECURSIVE Pow10(_)
Pow10(k) == IF k = 0 THEN 1 ELSE 10 * Pow10(k - 1)

RECURSIVE Gcd(_, _)
Gcd(a, b) == IF b = 0 THEN a ELSE Gcd(b, a % b)

Abs(a) == IF a < 0 THEN -a ELSE a

(* A Lox number: the rational n/d in lowest terms, d > 0.  The rounding    *)
(* of a 64-bit float is not modelled.                                      *)
Num(n, d) ==
    LET g == Gcd(Abs(n), d)
    IN [k |-> "num", n |-> n \div g, d |-> d \div g]

Str(s) == [k |-> "str", s |-> s]

DotIndex(text) ==
    IF \E i \in 1..Len(text) : text[i] = "."
    THEN CHOOSE i \in 1..Len(text) : text[i] = "."
    ELSE 0

(* float(text), for the texts Scanner.number produces: digits, or          *)
(* digits "." digits                                                       *)
float(text) ==
    LET dot == DotIndex(text)
    IN IF dot = 0
       THEN Num(DigitsValue(text), 1)
       ELSE LET ip == SubSeq(text, 1, dot - 1)
                fp == SubSeq(text, dot + 1, Len(text))
            IN Num(DigitsValue(ip) * Pow10(Len(fp)) + DigitsValue(fp), Pow10(Len(fp)))

Scanner_isAtEnd(m) == m.current >= Len(source)

Scanner_peek(m) == IF Scanner_isAtEnd(m) THEN NUL ELSE Ch(m.current)

(* peekNext guards with current + 1 > len: at current + 1 = len the read   *)
(* source[current + 1] is out of range.                                    *)
Scanner_peekNext(m) ==
    IF m.current + 1 > Len(source) THEN [m EXCEPT !.ch = NUL]
    ELSE IF m.current + 1 < Len(source) THEN [m EXCEPT !.ch = Ch(m.current + 1)]
    ELSE [m EXCEPT !.exc = "IndexError"]

(* advance increments first and reads source[current - 1] unguarded *)
Scanner_advance(m) ==
    LET n == [m EXCEPT !.current = @ + 1]
    IN IF n.current - 1 < Len(source)
       THEN [n EXCEPT !.ch = Ch(n.current - 1)]
       ELSE [n EXCEPT !.exc = "IndexError"]

Scanner_match(m, expected) ==
    IF Scanner_isAtEnd(m) THEN [m EXCEPT !.ret = FALSE]
    ELSE IF Ch(m.current) # expected THEN [m EXCEPT !.ret = FALSE]
    ELSE [m EXCEPT !.current = @ + 1, !.ret = TRUE]

addTokenLiteral(m, token_type, literal) ==
    [m EXCEPT !.tokens = Append(@, Token(token_type, Slice(m.start, m.current), literal, m.line))]

addToken(m, token_type) == addTokenLiteral(m, token_type, None)

(* the comment loop of scanToken *)
RECURSIVE skipComment(_)
skipComment(m) ==
    IF Scanner_peek(m) # "\n" /\ ~Scanner_isAtEnd(m)
    THEN LET n == Scanner_advance(m)
         IN IF n.exc # "none" THEN n ELSE skipComment(n)
    ELSE m

RECURSIVE whileNum(_)
whileNum(m) ==
    IF is_num(Scanner_peek(m))
    THEN LET n == Scanner_advance(m)
         IN IF n.exc # "none" THEN n ELSE whileNum(n)
    ELSE m

Scanner_number(m) ==
    LET m1 == whileNum(m)
        pn == Scanner_peekNext(m1)
        m2 == IF Scanner_peek(m1) = "."
              THEN IF pn.exc # "none" THEN pn
                   ELSE IF is_num(pn.ch) THEN Scanner_advance(m1) ELSE m1
              ELSE m1
        m3 == IF m2.exc # "none" THEN m2 ELSE whileNum(m2)
    IN IF m3.exc # "none" THEN m3
       ELSE addTokenLiteral(m3, "NUMBER", float(Slice(m3.start, m3.current)))

RECURSIVE whileAlnum(_)
whileAlnum(m) ==
    IF is_alnum(Scanner_peek(m))
    THEN LET n == Scanner_advance(m)
         IN IF n.exc # "none" THEN n ELSE whileAlnum(n)
    ELSE m

Scanner_identifier(m) ==
    LET n == whileAlnum(m)
    IN IF n.exc # "none" THEN n
       ELSE addToken(n, KEYWORDS(Slice(n.start, n.current)))

(* stringLoop with the line count of a newline inside a string left out *)
RECURSIVE stringLoop_noLine(_)
stringLoop_noLine(m) ==
    IF Scanner_peek(m) # "\"" /\ ~Scanner_isAtEnd(m)
    THEN LET m2 == Scanner_advance(m)
         IN IF m2.exc # "none" THEN m2
            ELSE IF Scanner_isAtEnd(m2)
                 THEN [Lox_error(m2, PyInt(m2.line), "Unterminated String") EXCEPT !.ret = TRUE]
                 ELSE stringLoop_noLine(m2)
    ELSE [m EXCEPT !.ret = FALSE]

(* the loop of Scanner.string; ret = TRUE when string() returned from      *)
(* inside the loop                                                         *)
RECURSIVE stringLoop(_)
stringLoop(m) ==
    IF Scanner_peek(m) # "\"" /\ ~Scanner_isAtEnd(m)
    THEN LET m1 == IF Scanner_peek(m) = "\n" THEN [m EXCEPT !.line = @ + 1] ELSE m
             m2 == Scanner_advance(m1)
         IN IF m2.exc # "none" THEN m2
            ELSE IF Scanner_isAtEnd(m2)
                 THEN [Lox_error(m2, PyInt(m2.line), "Unterminated String") EXCEPT !.ret = TRUE]
                 ELSE stringLoop(m2)
    ELSE [m EXCEPT !.ret = FALSE]

Scanner_string(m) ==
    LET m1 == stringLoop(m)
    IN IF m1.exc # "none" \/ m1.ret THEN m1
       ELSE LET m2 == Scanner_advance(m1)
            IN IF m2.exc # "none" THEN m2
               ELSE addTokenLiteral(m2, "STRING", Str(Slice(m2.start + 1, m2.current - 1)))

twoChar(m, c, double) ==
    LET t == Scanner_match(m, "=")
    IN IF t.ret THEN addToken(t, double) ELSE addToken(t, TOKEN_MAP(c))

Scanner_scanToken(m0) ==
    LET m == Scanner_advance(m0)
        c == m.ch
    IN CASE c \in {"(", ")", "{", "}", ",", ".", "-", "+", ";", "*"} -> addToken(m, TOKEN_MAP(c))
         [] c = "!" -> twoChar(m, c, "BANG_EQUAL")
         [] c = "=" -> twoChar(m, c, "EQUAL_EQUAL")
         [] c = "<" -> twoChar(m, c, "LESS_EQUAL")
         [] c = ">" -> twoChar(m, c, "GREATER_EQUAL")
         [] c = "/" -> LET t == Scanner_match(m, "/")
                       IN IF t.ret THEN skipComment(t) ELSE addToken(t, TOKEN_MAP(c))
         [] c \in {" ", "\r", "\t"} -> m
         [] c = "\n" -> [m EXCEPT !.line = @ + 1]
         [] c = "\"" -> Scanner_string(m)
         [] is_num(c) -> Scanner_number(m)
         [] is_alpha(c) -> Scanner_identifier(m)
         [] OTHER -> Lox_error(m, PyInt(m.line), "Unexpected character...")

EOFToken(ln) == Token("EOF", <<>>, None, ln)

(* The scanner's fields as a state record, at the top of the loop of       *)
(* scanTokens: self.start = self.current                                   *)
ScannerState ==
    [start |-> current, current |-> current, line |-> line, tokens |-> tokens,
     ch |-> NUL, ret |-> FALSE, exc |-> "none",
     reports |-> reports, hadError |-> hadErrorCls]

(* One iteration of the loop of scanTokens: a whole scanToken call. *)
ScanToken ==
    /\ pc = "scanTokens"
    /\ current < Len(source)
    /\ LET m == Scanner_scanToken(ScannerState)
       IN /\ start' = m.start
          /\ current' = m.current
          /\ line' = m.line
          /\ tokens' = m.tokens
          /\ reports' = m.reports
          /\ hadErrorCls' = m.hadError
          /\ exc' = m.exc
          /\ pc' = IF m.exc = "none" THEN "scanTokens" ELSE "raised"
    /\ UNCHANGED <<source, parseVars, loxVars, interpreterVars, resolver>>

(* The loop of scanTokens ends: the EOF token is appended and the list     *)
(* returned.                                                               *)
ScanEOF ==
    /\ pc = "scanTokens"
    /\ current >= Len(source)
    /\ tokens' = Append(tokens, EOFToken(line))
    /\ pc' = "scanned"
    /\ UNCHANGED <<scanVars, parseVars, hostVars, loxVars, interpreterVars, resolver, exc>>

----------------------------------------------------------------------------
(* Scanner(source).scanTokens() on every string of at most MaxSrcLen       *)
(* characters of ScanAlphabet                                              *)

ScanAlphabet == {"1", ".", "\"", "\n", "/", "a", "@", "="}

Strings(alphabet, n) == UNION {[1..k -> alphabet] : k \in 0..n}

InitScan ==
    /\ source \in Strings(ScanAlphabet, MaxSrcLen)
    /\ start = 0
    /\ current = 0
    /\ line = 1
    /\ tokens = <<>>
    /\ pcurrent = 0
    /\ statements = <<>>
    /\ pc = "scanTokens"
    /\ exc = "none"
    /\ reports = <<>>
    /\ hadErrorCls = FALSE
    /\ LoxInit

NextScan == ScanToken \/ ScanEOF

SpecScan == InitScan /\ [][NextScan]_vars

----------------------------------------------------------------------------
(* asts/expr.py, asts/stmt.py: the nodes, as the parser constructs them.   *)
(* A token field of a node holds the index of the Token object in          *)
(* Parser.tokens (the node refers to that object).                         *)

NoneNode == [t |-> "None"]

Bool(b) == [k |-> "bool", b |-> b]

Literal(value) == [t |-> "Literal", value |-> value]
Unary(operator, right) == [t |-> "Unary", operator |-> operator, right |-> right]
Binary(left, operator, right) ==
    [t |-> "Binary", left |-> left, operator |-> operator, right |-> right]
Logical(left, operator, right) ==
    [t |-> "Logical", left |-> left, operator |-> operator, right |-> right]
Grouping(expression) == [t |-> "Grouping", expression |-> expression]
Variable(name) == [t |-> "Variable", name |-> name]
Assign(name, value) == [t |-> "Assign", name |-> name, value |-> value]
Call(callee, paren, arguments) ==
    [t |-> "Call", callee |-> callee, paren |-> paren, arguments |-> arguments]
Get(object, name) == [t |-> "Get", object |-> object, name |-> name]
Set(object, name, value) ==
    [t |-> "Set", object |-> object, name |-> name, value |-> value]
This(keyword) == [t |-> "This", keyword |-> keyword]
Super(keyword, method) == [t |-> "Super", keyword |-> keyword, method |-> method]

Expression(expression) == [t |-> "Expression", expression |-> expression]
(* stmt.Print; the name Print is taken by the TLC module *)
PrintStmt(expression) == [t |-> "Print", expression |-> expression]
Var(name, initializer) == [t |-> "Var", name |-> name, initializer |-> initializer]
Block(stmts) == [t |-> "Block", statements |-> stmts]
If(condition, thenBranch, elseBranch) ==
    [t |-> "If", condition |-> condition, thenBranch |-> thenBranch,
     elseBranch |-> elseBranch]
While(condition, body) == [t |-> "While", condition |-> condition, body |-> body]
Function(name, params, body) ==
    [t |-> "Function", name |-> name, params |-> params, body |-> body]
Return(keyword, value) == [t |-> "Return", keyword |-> keyword, value |-> value]
Class(name, superclass, methods) ==
    [t |-> "Class", name |-> name, superclass |-> superclass, methods |-> methods]

----------------------------------------------------------------------------
(* parser.py.  A parser state p is a record                                *)
(* [cur, raised, node, ret, tok, list, exc, reports, hadError]: cur is     *)
(* Parser.current; raised tells that a LoxParseError is propagating; node  *)
(* is the value the last rule returned, ret the boolean the last           *)
(* match returned, tok the token (index) the last consume returned, list   *)
(* the list a loop has collected.                                          *)

MAX_ARGUMENT_COUNT == 255

(* self.tokens[i]; Python reads tokens[-1] as the last token *)
Tok(i) == IF i < 0 THEN tokens[Len(tokens) + 1 + i] ELSE tokens[i + 1]

Parser_peek(p) == p.cur

Parser_previous(p) == IF p.cur = 0 THEN Len(tokens) - 1 ELSE p.cur - 1

Parser_isAtEnd(p) == Tok(Parser_peek(p)).type = "EOF"

Parser_check(p, token_type) ==
    IF Parser_isAtEnd(p) THEN FALSE ELSE Tok(Parser_peek(p)).type = token_type

Parser_advance(p) ==
    LET n == IF ~Parser_isAtEnd(p) THEN [p EXCEPT !.cur = @ + 1] ELSE p
    IN [n EXCEPT !.tok = Parser_previous(n)]

Parser_match(p, token_types) ==
    IF \E ty \in token_types : Parser_check(p, ty)
    THEN [Parser_advance(p) EXCEPT !.ret = TRUE]
    ELSE [p EXCEPT !.ret = FALSE]

(* Parser.error reports and returns a LoxParseError; the caller may raise it *)
Parser_error(p, token, message) == Lox_error(p, PyToken(Tok(token)), message)

Raise(p) == [p EXCEPT !.raised = TRUE]

Parser_consume(p, token_type, message) ==
    IF Parser_check(p, token_type) THEN Parser_advance(p)
    ELSE Raise(Parser_error(p, Parser_peek(p), message))

Ret(p, node) == [p EXCEPT !.node = node]

(* A call self.rule() of a rule defined further down is written            *)
(* self("rule", p), with the one recursive operator self defined after     *)
(* the rules; a call of a rule defined above is written rule(p).  The      *)
(* value a called rule returns is the argument of a local operator that    *)
(* holds the rest of the method.                                           *)

RECURSIVE self(_, _)

primary(p) ==
    IF Parser_check(p, "FALSE") THEN Ret(Parser_advance(p), Literal(Bool(FALSE)))
    ELSE IF Parser_check(p, "TRUE") THEN Ret(Parser_advance(p), Literal(Bool(TRUE)))
    ELSE IF Parser_check(p, "NIL") THEN Ret(Parser_advance(p), Literal(None))
    ELSE IF Parser_check(p, "NUMBER") \/ Parser_check(p, "STRING")
    THEN LET a == Parser_advance(p)
         IN Ret(a, Literal(Tok(Parser_previous(a)).literal))
    ELSE IF Parser_check(p, "SUPER")
    THEN LET a == Parser_advance(p)
             keyword == Parser_previous(a)
             d == Parser_consume(a, "DOT", "Expect '.' after 'super'.")
             m == Parser_consume(d, "IDENTIFIER", "Expect superclass method name.")
         IN IF d.raised THEN d
            ELSE IF m.raised THEN m
            ELSE Ret(m, Super(keyword, m.tok))
    ELSE IF Parser_check(p, "THIS")
    THEN LET a == Parser_advance(p) IN Ret(a, This(Parser_previous(a)))
    ELSE IF Parser_check(p, "IDENTIFIER")
    THEN LET a == Parser_advance(p) IN Ret(a, Variable(Parser_previous(a)))
    ELSE IF Parser_check(p, "LEFT_PAREN")
    THEN LET grouping(e) ==
                 LET c == Parser_consume(e, "RIGHT_PAREN", "Expect ')' after expression")
                 IN IF e.raised THEN e
                    ELSE IF c.raised THEN c
                    ELSE Ret(c, Grouping(e.node))
         IN grouping(self("expression", Parser_advance(p)))
    ELSE Raise(Parser_error(p, Parser_peek(p), "Expect expression"))

(* the argument loop of finishCall; the collected list is left in list *)
(* one pass of the do-while body of finishCall: l.p is the parser, l.arguments
   the list so far, l.done is set when the loop has been left *)
argumentsPass(l) ==
    LET w == IF Len(l.arguments) > MAX_ARGUMENT_COUNT
             THEN Parser_error(l.p, Parser_peek(l.p), "Can't have more than 255 arguments.")
             ELSE l.p
        append(e) ==
            LET m == Parser_match(e, {"COMMA"})
            IN IF e.raised THEN [p |-> e, arguments |-> l.arguments, done |-> TRUE]
               ELSE [p |-> m, arguments |-> Append(l.arguments, e.node), done |-> ~m.ret]
    IN IF l.done THEN l ELSE append(self("expression", w))

(* k passes in order, the first half and then the second half, so that the
   evaluation depth grows with the logarithm of k *)
RECURSIVE argumentsPasses(_, _)
argumentsPasses(l, k) ==
    IF k <= 1 THEN argumentsPass(l)
    ELSE LET second(h) == IF h.done THEN h ELSE argumentsPasses(h, k - (k \div 2))
         IN second(argumentsPasses(l, k \div 2))

(* the loop runs until no comma follows; every pass consumes a token, so
   Len(tokens) passes are enough *)
argumentsLoop(p, arguments) ==
    LET out(l) == IF l.p.raised THEN l.p ELSE [l.p EXCEPT !.list = l.arguments]
    IN out(argumentsPasses([p |-> p, arguments |-> arguments, done |-> FALSE], Len(tokens)))

finishCall(p, callee) ==
    LET closeParen(a) ==
            LET c == Parser_consume(a, "RIGHT_PAREN", "Expect ')' after arguments")
            IN IF a.raised THEN a
               ELSE IF c.raised THEN c
               ELSE Ret(c, Call(callee, c.tok, a.list))
    IN closeParen(IF ~Parser_check(p, "RIGHT_PAREN")
                  THEN argumentsLoop(p, <<>>)
                  ELSE [p EXCEPT !.list = <<>>])

(* the loop of call; p.node is expr *)
RECURSIVE callLoop(_)
callLoop(p) ==
    IF Parser_check(p, "LEFT_PAREN")
    THEN LET again(f) == IF f.raised THEN f ELSE callLoop(f)
         IN again(finishCall(Parser_advance(p), p.node))
    ELSE IF Parser_check(p, "DOT")
    THEN LET n == Parser_consume(Parser_advance(p), "IDENTIFIER",
                                 "Expect property name after '.'.")
         IN IF n.raised THEN n ELSE callLoop(Ret(n, Get(p.node, n.tok)))
    ELSE p

call(p) ==
    LET loop(e) == IF e.raised THEN e ELSE callLoop(e)
    IN loop(primary(p))

unary(p) ==
    IF Parser_check(p, "BANG") \/ Parser_check(p, "MINUS")
    THEN LET a == Parser_advance(p)
             operator == Parser_previous(a)
             make(right) == IF right.raised THEN right
                            ELSE Ret(right, Unary(operator, right.node))
         IN make(self("unary", a))
    ELSE call(p)

(* the loop of factor; p.node is expr.  The right operand is parsed by     *)
(* self.term().                                                            *)
RECURSIVE factorLoop(_)
factorLoop(p) ==
    LET m == Parser_match(p, {"STAR", "SLASH"})
        operator == Parser_previous(m)
        make(right) == IF right.raised THEN right
                       ELSE factorLoop(Ret(right, Binary(p.node, operator, right.node)))
    IN IF ~m.ret THEN p ELSE make(self("term", m))

factor(p) ==
    LET loop(e) == IF e.raised THEN e ELSE factorLoop(e)
    IN loop(unary(p))

(* the loop of term; p.node is expr.  The right operand is parsed by       *)
(* self.term().                                                            *)
RECURSIVE termLoop(_)
termLoop(p) ==
    LET m == Parser_match(p, {"MINUS", "PLUS"})
        operator == Parser_previous(m)
        make(right) == IF right.raised THEN right
                       ELSE termLoop(Ret(right, Binary(p.node, operator, right.node)))
    IN IF ~m.ret THEN p ELSE make(self("term", m))

term(p) ==
    LET loop(e) == IF e.raised THEN e ELSE termLoop(e)
    IN loop(factor(p))

RECURSIVE comparisonLoop(_)
comparisonLoop(p) ==
    LET m == Parser_match(p, {"GREATER", "GREATER_EQUAL", "LESS", "LESS_EQUAL"})
        operator == Parser_previous(m)
        make(right) == IF right.raised THEN right
                       ELSE comparisonLoop(Ret(right, Binary(p.node, operator, right.node)))
    IN IF ~m.ret THEN p ELSE make(self("term", m))

comparison(p) ==
    LET loop(e) == IF e.raised THEN e ELSE comparisonLoop(e)
    IN loop(term(p))

RECURSIVE equalityLoop(_)
equalityLoop(p) ==
    LET m == Parser_match(p, {"BANG_EQUAL", "EQUAL_EQUAL"})
        operator == Parser_previous(m)
        make(right) == IF right.raised THEN right
                       ELSE equalityLoop(Ret(right, Binary(p.node, operator, right.node)))
    IN IF ~m.ret THEN p ELSE make(self("comparison", m))

equality(p) ==
    LET loop(e) == IF e.raised THEN e ELSE equalityLoop(e)
    IN loop(comparison(p))

(* logic_and and logic_or test for their operator once: an if, not a loop *)
logic_and(p) ==
    LET rest(e) ==
            LET m == Parser_match(e, {"AND"})
                operator == Parser_previous(m)
                make(right) == IF right.raised THEN right
                               ELSE Ret(right, Logical(e.node, operator, right.node))
            IN IF e.raised THEN e
               ELSE IF ~m.ret THEN e
               ELSE make(self("equality", m))
    IN rest(equality(p))

logic_or(p) ==
    LET rest(e) ==
            LET m == Parser_match(e, {"OR"})
                operator == Parser_previous(m)
                make(right) == IF right.raised THEN right
                               ELSE Ret(right, Logical(e.node, operator, right.node))
            IN IF e.raised THEN e
               ELSE IF ~m.ret THEN e
               ELSE make(self("logic_and", m))
    IN rest(logic_and(p))

(* assignment that looks at the shape of the left side first and parses    *)
(* the right-hand side only for a Variable or a Get                        *)
assignment_targetFirst(p) ==
    LET rest(e) ==
            LET m == Parser_match(e, {"EQUAL"})
                equals == Parser_previous(m)
                make(value) ==
                    IF value.raised THEN value
                    ELSE IF e.node.t = "Variable"
                    THEN Ret(value, Assign(e.node.name, value.node))
                    ELSE Ret(value, Set(e.node.object, e.node.name, value.node))
            IN IF e.raised THEN e
               ELSE IF ~m.ret THEN e
               ELSE IF e.node.t \notin {"Variable", "Get"}
               THEN Ret(Parser_error(m, equals, "Invalid assignment target."), e.node)
               ELSE make(self("assignment", m))
    IN rest(logic_or(p))

(* assignment parses the right-hand side before it looks at the shape of   *)
(* the left side; on a bad target it reports without raising and returns   *)
(* the left side.                                                          *)
assignment(p) ==
    LET rest(e) ==
            LET m == Parser_match(e, {"EQUAL"})
                equals == Parser_previous(m)
                make(value) ==
                    IF value.raised THEN value
                    ELSE IF e.node.t = "Variable"
                    THEN Ret(value, Assign(e.node.name, value.node))
                    ELSE IF e.node.t = "Get"
                    THEN Ret(value, Set(e.node.object, e.node.name, value.node))
                    ELSE Ret(Parser_error(value, equals, "Invalid assignment target."),
                             e.node)
            IN IF e.raised THEN e
               ELSE IF ~m.ret THEN e
               ELSE make(self("assignment", m))
    IN rest(logic_or(p))

expression(p) == assignment(p)

(* the loop of block; the collected list is left in list *)
RECURSIVE blockLoop(_, _)
blockLoop(p, stmts) ==
    IF ~Parser_check(p, "RIGHT_BRACE") /\ ~Parser_isAtEnd(p)
    THEN LET append(d) == IF d.raised THEN d ELSE blockLoop(d, Append(stmts, d.node))
         IN append(self("declaration", p))
    ELSE [p EXCEPT !.list = stmts]

block(p) ==
    LET closeBrace(b) ==
            LET c == Parser_consume(b, "RIGHT_BRACE", "Expect '}' after block.")
            IN IF b.raised THEN b
               ELSE IF c.raised THEN c
               ELSE [c EXCEPT !.list = b.list]
    IN closeBrace(blockLoop(p, <<>>))

expressionStatement(p) ==
    LET rest(e) ==
            LET c == Parser_consume(e, "SEMICOLON", "Expect ';' after expression")
            IN IF e.raised THEN e
               ELSE IF c.raised THEN c
               ELSE Ret(c, Expression(e.node))
    IN rest(self("expression", p))

whileStatement(p) ==
    LET a == Parser_consume(p, "LEFT_PAREN", "Expect '(' after 'while'.")
        make(c, body) == IF body.raised THEN body ELSE Ret(body, While(c.node, body.node))
        afterCondition(c) ==
            LET b == Parser_consume(c, "RIGHT_PAREN", "Expect ')' after while condition.")
            IN IF c.raised THEN c
               ELSE IF b.raised THEN b
               ELSE make(c, self("statement", b))
    IN IF a.raised THEN a ELSE afterCondition(self("expression", a))

ifStatement(p) ==
    LET a == Parser_consume(p, "LEFT_PAREN", "Expect '(' after 'if'.")
        withElse(c, thenBranch, elseBranch) ==
            IF elseBranch.raised THEN elseBranch
            ELSE Ret(elseBranch, If(c.node, thenBranch.node, elseBranch.node))
        afterThen(c, thenBranch) ==
            LET m == Parser_match(thenBranch, {"ELSE"})
            IN IF thenBranch.raised THEN thenBranch
               ELSE IF ~m.ret THEN Ret(m, If(c.node, thenBranch.node, NoneNode))
               ELSE withElse(c, thenBranch, self("statement", m))
        afterCondition(c) ==
            LET b == Parser_consume(c, "RIGHT_PAREN", "Expect ')' after if condition")
            IN IF c.raised THEN c
               ELSE IF b.raised THEN b
               ELSE afterThen(c, self("statement", b))
    IN IF a.raised THEN a ELSE afterCondition(self("expression", a))

returnStatement(p) ==
    LET keyword == Parser_previous(p)
        rest(v) ==
            LET c == Parser_consume(v, "SEMICOLON", "Expect ';' after return value.")
            IN IF v.raised THEN v
               ELSE IF c.raised THEN c
               ELSE Ret(c, Return(keyword, v.node))
    IN rest(IF ~Parser_check(p, "SEMICOLON") THEN self("expression", p) ELSE Ret(p, NoneNode))

printStatement(p) ==
    LET rest(e) ==
            LET c == Parser_consume(e, "SEMICOLON", "Expect ';' after value")
            IN IF e.raised THEN e
               ELSE IF c.raised THEN c
               ELSE Ret(c, PrintStmt(e.node))
    IN rest(self("expression", p))

varDeclaration(p) ==
    LET name == Parser_consume(p, "IDENTIFIER", "Expect variable name")
        m == Parser_match(name, {"EQUAL"})
        rest(i) ==
            LET c == Parser_consume(i, "SEMICOLON", "Expect ';' after variable declaration")
            IN IF i.raised THEN i
               ELSE IF c.raised THEN c
               ELSE Ret(c, Var(name.tok, i.node))
    IN IF name.raised THEN name
       ELSE rest(IF m.ret THEN self("expression", m) ELSE Ret(m, NoneNode))

(* for desugars to Block([initializer, While(condition, Block([body,       *)
(* Expression(increment)]))])                                              *)
forStatement(p) ==
    LET a == Parser_consume(p, "LEFT_PAREN", "Expect '(' after 'for'.")
        desugar(i, c, n, b) ==
            LET body1 == IF n.node # NoneNode THEN Block(<<b.node, Expression(n.node)>>)
                         ELSE b.node
                condition == IF c.node = NoneNode THEN Literal(Bool(TRUE)) ELSE c.node
                body2 == While(condition, body1)
                body3 == IF i.node # NoneNode THEN Block(<<i.node, body2>>) ELSE body2
            IN IF b.raised THEN b ELSE Ret(b, body3)
        afterIncrement(i, c, n) ==
            LET s2 == Parser_consume(n, "RIGHT_PAREN", "Expect ')' after for clauses.")
            IN IF n.raised THEN n
               ELSE IF s2.raised THEN s2
               ELSE desugar(i, c, n, self("statement", s2))
        afterCondition(i, c) ==
            LET s1 == Parser_consume(c, "SEMICOLON", "Expect ';' after loop condition.")
            IN IF c.raised THEN c
               ELSE IF s1.raised THEN s1
               ELSE afterIncrement(i, c, IF ~Parser_check(s1, "RIGHT_PAREN")
                                         THEN self("expression", s1)
                                         ELSE Ret(s1, NoneNode))
        afterInitializer(i) ==
            IF i.raised THEN i
            ELSE afterCondition(i, IF ~Parser_check(i, "SEMICOLON") THEN self("expression", i)
                                   ELSE Ret(i, NoneNode))
    IN IF a.raised THEN a
       ELSE afterInitializer(IF Parser_check(a, "SEMICOLON")
                             THEN Ret(Parser_advance(a), NoneNode)
                             ELSE IF Parser_check(a, "VAR")
                             THEN self("varDeclaration", Parser_advance(a))
                             ELSE self("expressionStatement", a))

statement(p) ==
    IF Parser_check(p, "IF") THEN self("ifStatement", Parser_advance(p))
    ELSE IF Parser_check(p, "PRINT") THEN self("printStatement", Parser_advance(p))
    ELSE IF Parser_check(p, "LEFT_BRACE")
    THEN LET make(b) == IF b.raised THEN b ELSE Ret(b, Block(b.list))
         IN make(self("block", Parser_advance(p)))
    ELSE IF Parser_check(p, "RETURN") THEN self("returnStatement", Parser_advance(p))
    ELSE IF Parser_check(p, "WHILE") THEN self("whileStatement", Parser_advance(p))
    ELSE IF Parser_check(p, "FOR") THEN self("forStatement", Parser_advance(p))
    ELSE self("expressionStatement", p)

(* the parameter loop of function; the collected list is left in list.
   parametersPass is one pass of its body, as argumentsPass *)
parametersPass(l) ==
    LET w == IF Len(l.parameters) > MAX_ARGUMENT_COUNT
             THEN Parser_error(l.p, Parser_peek(l.p), "Can't have more than 255 parameters.")
             ELSE l.p
        c == Parser_consume(w, "IDENTIFIER", "Expect parameter name.")
        m == Parser_match(c, {"COMMA"})
    IN IF l.done THEN l
       ELSE IF c.raised THEN [p |-> c, parameters |-> l.parameters, done |-> TRUE]
       ELSE [p |-> m, parameters |-> Append(l.parameters, c.tok), done |-> ~m.ret]

RECURSIVE parametersPasses(_, _)
parametersPasses(l, k) ==
    IF k <= 1 THEN parametersPass(l)
    ELSE LET second(h) == IF h.done THEN h ELSE parametersPasses(h, k - (k \div 2))
         IN second(parametersPasses(l, k \div 2))

parametersLoop(p, parameters) ==
    LET out(l) == IF l.p.raised THEN l.p ELSE [l.p EXCEPT !.list = l.parameters]
    IN out(parametersPasses([p |-> p, parameters |-> parameters, done |-> FALSE], Len(tokens)))

function(p, kind) ==
    LET name == Parser_consume(p, "IDENTIFIER",
                    IF kind = "function" THEN "Expect function name."
                                         ELSE "Expect method name.")
        lp == Parser_consume(name, "LEFT_PAREN",
                    IF kind = "function" THEN "Expect'(' after function name."
                                         ELSE "Expect'(' after method name.")
        make(ps, body) == IF body.raised THEN body
                          ELSE Ret(body, Function(name.tok, ps.list, body.list))
        afterParameters(ps) ==
            LET rp == Parser_consume(ps, "RIGHT_PAREN", "Expect ')' after parameters.")
                lb == Parser_consume(rp, "LEFT_BRACE",
                          IF kind = "function" THEN "Expect '{' before function body."
                                               ELSE "Expect '{' before method body.")
            IN IF ps.raised THEN ps
               ELSE IF rp.raised THEN rp
               ELSE IF lb.raised THEN lb
               ELSE make(ps, self("block", lb))
    IN IF name.raised THEN name
       ELSE IF lp.raised THEN lp
       ELSE afterParameters(IF ~Parser_check(lp, "RIGHT_PAREN")
                            THEN parametersLoop(lp, <<>>)
                            ELSE [lp EXCEPT !.list = <<>>])

(* the method loop of classDeclaration; the collected list is left in list *)
RECURSIVE methodsLoop(_, _)
methodsLoop(p, methods) ==
    IF ~Parser_check(p, "RIGHT_BRACE") /\ ~Parser_isAtEnd(p)
    THEN LET append(f) == IF f.raised THEN f ELSE methodsLoop(f, Append(methods, f.node))
         IN append(function(p, "method"))
    ELSE [p EXCEPT !.list = methods]

classDeclaration(p) ==
    LET name == Parser_consume(p, "IDENTIFIER", "Expect class name.")
        m == Parser_match(name, {"LESS"})
        sc == IF m.ret THEN Parser_consume(m, "IDENTIFIER", "Expect") ELSE m
        superclass == IF m.ret THEN Variable(sc.tok) ELSE NoneNode
        lb == Parser_consume(sc, "LEFT_BRACE", "Expect '{' before class body")
        closeBrace(ms) ==
            LET rb == Parser_consume(ms, "RIGHT_BRACE", "Expect '}' after class body.")
            IN IF ms.raised THEN ms
               ELSE IF rb.raised THEN rb
               ELSE Ret(rb, Class(name.tok, superclass, ms.list))
    IN IF name.raised THEN name
       ELSE IF sc.raised THEN sc
       ELSE IF lb.raised THEN lb
       ELSE closeBrace(methodsLoop(lb, <<>>))

declaration(p) ==
    IF Parser_check(p, "CLASS") THEN self("classDeclaration", Parser_advance(p))
    ELSE IF Parser_check(p, "FUN") THEN function(Parser_advance(p), "function")
    ELSE IF Parser_check(p, "VAR") THEN self("varDeclaration", Parser_advance(p))
    ELSE self("statement", p)

(* the method of the parser that a call self.rule() runs *)
self(rule, p) ==
    CASE rule = "declaration" -> declaration(p)
      [] rule = "classDeclaration" -> classDeclaration(p)
      [] rule = "varDeclaration" -> varDeclaration(p)
      [] rule = "statement" -> statement(p)
      [] rule = "forStatement" -> forStatement(p)
      [] rule = "printStatement" -> printStatement(p)
      [] rule = "returnStatement" -> returnStatement(p)
      [] rule = "ifStatement" -> ifStatement(p)
      [] rule = "whileStatement" -> whileStatement(p)
      [] rule = "expressionStatement" -> expressionStatement(p)
      [] rule = "block" -> block(p)
      [] rule = "expression" -> expression(p)
      [] rule = "assignment" -> assignment(p)
      [] rule = "logic_or" -> logic_or(p)
      [] rule = "logic_and" -> logic_and(p)
      [] rule = "equality" -> equality(p)
      [] rule = "comparison" -> comparison(p)
      [] rule = "term" -> term(p)
      [] rule = "factor" -> factor(p)
      [] rule = "unary" -> unary(p)
      [] rule = "call" -> call(p)
      [] rule = "primary" -> primary(p)

SyncKeywords == {"CLASS", "FUN", "VAR", "RETURN", "FOR", "IF", "WHILE", "PRINT"}

(* the loop of synchronise *)
RECURSIVE synchroniseLoop(_)
synchroniseLoop(p) ==
    IF ~Parser_isAtEnd(p)
    THEN IF Tok(Parser_previous(p)).type = "SEMICOLON" THEN p
         ELSE IF Tok(Parser_peek(p)).type \in SyncKeywords THEN p
         ELSE synchroniseLoop(Parser_advance(p))
    ELSE p

(* synchronise without its leading advance *)
synchronise_noAdvance(p) == synchroniseLoop(p)

synchronise(p) == synchroniseLoop(Parser_advance(p))

(* The parser's fields as a state record, at the top of the loop of parse *)
ParserState ==
    [cur |-> pcurrent, raised |-> FALSE, node |-> NoneNode, ret |-> FALSE,
     tok |-> 0, list |-> <<>>, exc |-> "none",
     reports |-> reports, hadError |-> hadErrorCls]

(* One iteration of the loop of parse: a declaration, or a LoxParseError   *)
(* caught and followed by synchronise.                                     *)
ParseDeclaration ==
    /\ pc = "parse"
    /\ ~Parser_isAtEnd(ParserState)
    /\ LET iteration(d) ==
               LET r == IF d.raised THEN synchronise(d) ELSE d
               IN /\ pcurrent' = r.cur
                  /\ statements' = IF d.raised THEN statements
                                   ELSE Append(statements, d.node)
                  /\ reports' = r.reports
                  /\ hadErrorCls' = r.hadError
       IN iteration(declaration(ParserState))
    /\ UNCHANGED <<scanVars, tokens, loxVars, interpreterVars, resolver, pc, exc>>

(* The loop of parse ends at the EOF token: the statements are returned. *)
ParseReturn ==
    /\ pc = "parse"
    /\ Parser_isAtEnd(ParserState)
    /\ pc' = "parsed"
    /\ UNCHANGED <<scanVars, tokens, parseVars, hostVars, loxVars, interpreterVars, resolver, exc>>

NextParse == ParseDeclaration \/ ParseReturn

----------------------------------------------------------------------------
(* Parser(tokens).parse() on every list of at most MaxTokens tokens of     *)
(* ParseTokens followed by EOF, and on the token lists of ParsePrograms,   *)
(* as the scanner builds them from one line of source.                     *)

MaxTokens == 3

Tk(type, lexeme) == Token(type, lexeme, None, 1)

NumberToken(d) == Token("NUMBER", <<d>>, Num(DigitVal(d), 1), 1)

ParseTokens ==
    {NumberToken("1"), Tk("IDENTIFIER", <<"a">>), Tk("EQUAL", <<"=">>),
     Tk("SEMICOLON", <<";">>), Tk("LEFT_BRACE", <<"{">>), Tk("RIGHT_BRACE", <<"}">>),
     Tk("PRINT", <<"p", "r", "i", "n", "t">>), Tk("VAR", <<"v", "a", "r">>),
     Tk("MINUS", <<"-">>)}

(* 1 = 2 = 3;   a = 1 = 2;   (a) = 1; print a;   a(1)(1) = 1; *)
ParsePrograms ==
    {<<NumberToken("1"), Tk("EQUAL", <<"=">>), NumberToken("2"), Tk("EQUAL", <<"=">>),
       NumberToken("3"), Tk("SEMICOLON", <<";">>)>>,
     <<Tk("IDENTIFIER", <<"a">>), Tk("EQUAL", <<"=">>), NumberToken("1"),
       Tk("EQUAL", <<"=">>), NumberToken("2"), Tk("SEMICOLON", <<";">>)>>,
     <<Tk("LEFT_PAREN", <<"(">>), Tk("IDENTIFIER", <<"a">>), Tk("RIGHT_PAREN", <<")">>),
       Tk("EQUAL", <<"=">>), NumberToken("1"), Tk("SEMICOLON", <<";">>),
       Tk("PRINT", <<"p", "r", "i", "n", "t">>), Tk("IDENTIFIER", <<"a">>),
       Tk("SEMICOLON", <<";">>)>>,
     <<Tk("IDENTIFIER", <<"a">>), Tk("LEFT_PAREN", <<"(">>), NumberToken("1"),
       Tk("RIGHT_PAREN", <<")">>), Tk("LEFT_PAREN", <<"(">>), NumberToken("1"),
       Tk("RIGHT_PAREN", <<")">>), Tk("EQUAL", <<"=">>), NumberToken("1"),
       Tk("SEMICOLON", <<";">>)>>}

InitParser(tokenList) ==
    /\ source = <<>>
    /\ start = 0
    /\ current = 0
    /\ line = 1
    /\ tokens = tokenList
    /\ pcurrent = 0
    /\ statements = <<>>
    /\ pc = "parse"
    /\ exc = "none"
    /\ reports = <<>>
    /\ hadErrorCls = FALSE
    /\ LoxInit

InitParse ==
    \E body \in Strings(ParseTokens, MaxTokens) \cup ParsePrograms :
        InitParser(Append(body, EOFToken(1)))

SpecParse == InitParse /\ [][NextParse]_vars

(* C7: every iteration of the loop of parse (a declaration, or a           *)
(* LoxParseError followed by synchronise) strictly increases current, the  *)
(* loop ends exactly when current is at the EOF token, and current never   *)
(* goes past the EOF token; so parse terminates after at most              *)
(* Len(tokens) - 1 iterations.                                             *)
C7_ParseProgress ==
    [][pc = "parse" =>
          /\ pcurrent' < Len(tokens)
          /\ IF Tok(pcurrent).type = "EOF"
             THEN pc' = "parsed" /\ pcurrent' = pcurrent
             ELSE pc' = "parse" /\ pcurrent' > pcurrent]_vars

(* parse has returned after a LoxParseError with synchronise and after a   *)
(* successful declaration                                                  *)
C7_Witness ==
    /\ pc = "parsed"
    /\ Len(reports) > 0
    /\ Len(statements) > 0
    /\ Tok(pcurrent).type = "EOF"

(* C8: one iteration of the loop of parse, that is one top-level           *)
(* declaration up to its synchronisation, reports at most one parse error  *)
(* to the host sink.                                                       *)
C8_OneReportPerDeclaration ==
    [][pc = "parse" => Len(reports') <= Len(reports) + 1]_vars

----------------------------------------------------------------------------
(* Parser(tokens).parse() on the statements  a op1 b op2 c ;  and          *)
(* print a op1 b op2 c ;  for unary-level operands a, b, c and arithmetic  *)
(* operators op1, op2.                                                     *)

Operands ==
    {<<NumberToken("8")>>, <<NumberToken("3")>>, <<NumberToken("2")>>,
     <<Tk("IDENTIFIER", <<"a">>)>>,
     <<Tk("MINUS", <<"-">>), NumberToken("1")>>,
     <<Tk("LEFT_PAREN", <<"(">>), Tk("IDENTIFIER", <<"a">>), Tk("RIGHT_PAREN", <<")">>)>>}

FactorOps == {Tk("STAR", <<"*">>), Tk("SLASH", <<"/">>)}

TermOps == {Tk("PLUS", <<"+">>), Tk("MINUS", <<"-">>)}

Prefixes == {<<>>, <<Tk("PRINT", <<"p", "r", "i", "n", "t">>)>>}

InitExpr ==
    \E prefix \in Prefixes : \E a \in Operands, b \in Operands, c \in Operands :
      \E op1 \in FactorOps \cup TermOps, op2 \in FactorOps \cup TermOps :
        InitParser(prefix \o a \o <<op1>> \o b \o <<op2>> \o c
                   \o <<Tk("SEMICOLON", <<";">>), EOFToken(1)>>)

SpecExpr == InitExpr /\ [][NextParse]_vars

(* the unary-level expression that starts at token i *)
OperandAt(i) == unary([ParserState EXCEPT !.cur = i])

ExprStart == IF Tok(0).type = "PRINT" THEN 1 ELSE 0

OperandA == OperandAt(ExprStart)

OperandB == OperandAt(OperandA.cur + 1)

OperandC == OperandAt(OperandB.cur + 1)

Op1 == OperandA.cur

Op2 == OperandB.cur

(* Binary(Binary(a, op1, b), op2, c) *)
LeftNested == Binary(Binary(OperandA.node, Op1, OperandB.node), Op2, OperandC.node)

(* Binary(a, op1, Binary(b, op2, c)) *)
RightNested == Binary(OperandA.node, Op1, Binary(OperandB.node, Op2, OperandC.node))

FactorTypes == {"STAR", "SLASH"}

TermTypes == {"PLUS", "MINUS"}

(* the expression of the one statement that parse returned *)
ParsedExpr == statements[1].expression

(* C9: * and / bind tighter than + and - whatever the operand order:       *)
(* a * b + c parses to Binary(Binary(a,*,b), +, c) and a + b * c parses    *)
(* to Binary(a, +, Binary(b,*,c)), for unary-level operands a, b, c.       *)
C9_FactorBindsTighter ==
    (pc = "parsed") =>
        /\ Len(statements) = 1
        /\ (Tok(Op1).type \in FactorTypes /\ Tok(Op2).type \in TermTypes)
               => ParsedExpr = LeftNested
        /\ (Tok(Op1).type \in TermTypes /\ Tok(Op2).type \in FactorTypes)
               => ParsedExpr = RightNested

(* C10: binary -, +, / and * are left-associative: a op1 b op2 c with      *)
(* op1 and op2 of the same precedence level parses to                      *)
(* Binary(Binary(a,op1,b), op2, c), for unary-level operands a, b, c.      *)
C10_LeftAssociative ==
    (pc = "parsed") =>
        /\ Len(statements) = 1
        /\ (\/ Tok(Op1).type \in FactorTypes /\ Tok(Op2).type \in FactorTypes
            \/ Tok(Op1).type \in TermTypes /\ Tok(Op2).type \in TermTypes)
               => ParsedExpr = LeftNested

----------------------------------------------------------------------------
(* Scanner properties, checked under SpecScan                              *)

(* the number of newline characters in source[0:n] *)
Newlines(n) == Cardinality({i \in 0..(n - 1) : Ch(i) = "\n"})

StartsNoToken(c) ==
    /\ c \notin {"(", ")", "{", "}", ",", ".", "-", "+", ";", "*",
                 "!", "=", "<", ">", "/", " ", "\r", "\t", "\n", "\""}
    /\ ~is_num(c)
    /\ ~is_alpha(c)

ScannerError(ln, message) == [line |-> ln, where |-> <<>>, message |-> message]

(* C3: for any input string scanTokens terminates normally: no exception   *)
(* escapes, the cursor current never passes the end of the source, and the *)
(* returned token list ends with the EOF token.                            *)
C3_ScannerTotality ==
    /\ pc # "raised"
    /\ current <= Len(source)
    /\ (pc = "scanned" => tokens # <<>> /\ tokens[Len(tokens)].type = "EOF")

(* C4: when scanToken meets a character that starts no token, a lexical    *)
(* error with the current line and an empty where is reported, the         *)
(* static-error flag is set, no token is emitted for the character and     *)
(* scanning continues after it.                                            *)
C4_UnexpectedCharReported ==
    [][(pc = "scanTokens" /\ current < Len(source) /\ StartsNoToken(Ch(current)))
        => /\ reports' = Append(reports, ScannerError(line, "Unexpected character..."))
           /\ hadErrorCls' = TRUE
           /\ tokens' = tokens
           /\ current' = current + 1
           /\ pc' = "scanTokens"]_vars

(* the index of the quote that closes the string opened at index i, or -1 *)
ClosingQuote(i) ==
    IF \E j \in (i + 1)..(Len(source) - 1) : Ch(j) = "\""
    THEN CHOOSE j \in (i + 1)..(Len(source) - 1) :
            Ch(j) = "\"" /\ \A l \in (i + 1)..(j - 1) : Ch(l) # "\""
    ELSE -1

(* C5: a string with no closing quote before the end of input (the opening *)
(* quote may be the last character) is reported as 'Unterminated String'   *)
(* and yields no STRING token; a terminated string yields a STRING token   *)
(* whose literal is exactly the text between the quotes.                   *)
C5_StringLiteral ==
    [][(pc = "scanTokens" /\ current < Len(source) /\ Ch(current) = "\"")
        => LET close == ClosingQuote(current)
           IN IF close = -1
              THEN /\ reports' = Append(reports, ScannerError(line', "Unterminated String"))
                   /\ hadErrorCls' = TRUE
                   /\ tokens' = tokens
              ELSE /\ tokens' = Append(tokens,
                          Token("STRING", Slice(current, close + 1),
                                Str(Slice(current + 1, close)), line'))
                   /\ reports' = reports]_vars

(* C6: every emitted token carries line = 1 + the number of newlines       *)
(* before its last character, the EOF token 1 + the number of all          *)
(* newlines, and the line counter never decreases.                         *)
C6_TokenLines ==
    [][/\ line' >= line
       /\ Len(tokens') >= Len(tokens)
       /\ (Len(tokens') > Len(tokens)
            => LET t == tokens'[Len(tokens')]
               IN /\ tokens' = Append(tokens, t)
                  /\ t.line = 1 + (IF t.type = "EOF"
                                   THEN Newlines(Len(source))
                                   ELSE Newlines(current' - 1)))]_vars

(* a string literal spanning two lines was scanned, after a line comment *)
C6_Witness ==
    /\ pc = "scanned"
    /\ \E i \in 1..Len(tokens) : tokens[i].type = "STRING" /\ tokens[i].line = 2

----------------------------------------------------------------------------
(* resolver.py.  A resolver state r is a record                            *)
(* [scopes, locals, reports, hadError, exc]: scopes is the stack of        *)
(* dict[str, bool], locals is the Interpreter.locals that                  *)
(* Interpreter.resolve fills.  The visit methods modelled are those of     *)
(* the nodes Block, Var, Expression, If, Print, While and Variable,        *)
(* Assign, Binary, Call, Get, Set, Grouping, Literal, Logical, Unary.      *)

(* utils.py: FunctionType = Enum("FunctionType", "NONE, FUNCTION") *)
FunctionType == {"NONE", "FUNCTION"}

(* the members of ClassType, which resolver.py imports from utils *)
ClassType == {"NONE", "CLASS", "SUBCLASS"}

(* FunctionType.<member>: AttributeError for a name that is no member; the *)
(* member is left in ret                                                   *)
FunctionTypeMember(r, member) ==
    IF member \in FunctionType THEN [r EXCEPT !.ret = member]
    ELSE [r EXCEPT !.exc = "AttributeError"]

noScope(r) == Len(r.scopes) = 0

peekScope(r) == r.scopes[Len(r.scopes)]

numScopes(r) == Len(r.scopes)

(* interpreter.py: Interpreter.resolve *)
Interpreter_resolve(r, expr, depth) == [r EXCEPT !.locals = Put(@, expr, depth)]

(* the loop of resolveLocal run from the outermost scope inwards *)
RECURSIVE resolveLocalLoop_outermost(_, _, _, _)
resolveLocalLoop_outermost(r, expr, name, i) ==
    IF i >= numScopes(r) THEN r
    ELSE IF Tok(name).lexeme \in DOMAIN r.scopes[1 + i]
         THEN Interpreter_resolve(r, expr, i)
         ELSE resolveLocalLoop_outermost(r, expr, name, i + 1)

(* the loop of resolveLocal: scopes[numScopes - 1 - i] *)
RECURSIVE resolveLocalLoop(_, _, _, _)
resolveLocalLoop(r, expr, name, i) ==
    IF i >= numScopes(r) THEN r
    ELSE IF Tok(name).lexeme \in DOMAIN r.scopes[numScopes(r) - i]
         THEN Interpreter_resolve(r, expr, i)
         ELSE resolveLocalLoop(r, expr, name, i + 1)

resolveLocal(r, expr, name) == resolveLocalLoop(r, expr, name, 0)

beginScope(r) == [r EXCEPT !.scopes = Append(@, <<>>)]

endScope(r) == [r EXCEPT !.scopes = SubSeq(@, 1, Len(@) - 1)]

Resolver_declare(r, name) ==
    IF noScope(r) THEN r
    ELSE LET e == IF Tok(name).lexeme \in DOMAIN peekScope(r)
                  THEN Lox_error(r, PyToken(Tok(name)),
                                 "Variable with this name already defined in this scope")
                  ELSE r
         IN [e EXCEPT !.scopes[Len(e.scopes)] = Put(@, Tok(name).lexeme, FALSE)]

Resolver_define(r, name) ==
    IF noScope(r) THEN r
    ELSE [r EXCEPT !.scopes[Len(r.scopes)] = Put(@, Tok(name).lexeme, TRUE)]

RECURSIVE resolveStatements(_, _), resolveStatement(_, _), resolveExpression(_, _),
          resolveExpressions(_, _)

resolveStatements(r, stmts) ==
    IF stmts = <<>> THEN r
    ELSE resolveStatements(resolveStatement(r, Head(stmts)), Tail(stmts))

(* the loop over expr.arguments in visitCallExpr *)
resolveExpressions(r, exprs) ==
    IF exprs = <<>> THEN r
    ELSE resolveExpressions(resolveExpression(r, Head(exprs)), Tail(exprs))

Resolver_visitVariableExpr(r, expr) ==
    LET lexeme == Tok(expr.name).lexeme
        e == IF ~noScope(r) /\ lexeme \in DOMAIN peekScope(r) /\ peekScope(r)[lexeme] = FALSE
             THEN Lox_error(r, PyToken(Tok(expr.name)),
                            "Can't read local variable in its own initialiser")
             ELSE r
    IN resolveLocal(e, expr, expr.name)

Resolver_visitSuperExpr(r, expr) ==
    LET e == IF r.currentClass = "NONE"
             THEN Lox_error(r, PyToken(Tok(expr.keyword)),
                            "Can't use 'super' outside of a class.")
             ELSE IF r.currentClass # "SUBCLASS"
             THEN Lox_error(r, PyToken(Tok(expr.keyword)),
                            "Can't use 'super' in a class without a subclass.")
             ELSE r
    IN resolveLocal(e, expr, expr.keyword)

Resolver_visitThisExpr(r, expr) ==
    IF r.currentClass = "NONE"
    THEN Lox_error(r, PyToken(Tok(expr.keyword)), "Can't use 'this' outside of a class.")
    ELSE resolveLocal(r, expr, expr.keyword)

resolveExpression(r, expr) ==
    CASE expr.t = "Variable" -> Resolver_visitVariableExpr(r, expr)
      [] expr.t = "Assign" -> resolveLocal(resolveExpression(r, expr.value), expr, expr.name)
      [] expr.t \in {"Binary", "Logical"} ->
            resolveExpression(resolveExpression(r, expr.left), expr.right)
      [] expr.t = "Call" ->
            resolveExpressions(resolveExpression(r, expr.callee), expr.arguments)
      [] expr.t = "Get" -> resolveExpression(r, expr.object)
      [] expr.t = "Set" -> resolveExpression(resolveExpression(r, expr.value), expr.object)
      [] expr.t = "Grouping" -> resolveExpression(r, expr.expression)
      [] expr.t = "Literal" -> r
      [] expr.t = "Unary" -> resolveExpression(r, expr.right)
      [] expr.t = "Super" -> Resolver_visitSuperExpr(r, expr)
      [] expr.t = "This" -> Resolver_visitThisExpr(r, expr)

Resolver_visitVarStmt(r, stmt) ==
    LET d == Resolver_declare(r, stmt.name)
        e == IF stmt.initializer # NoneNode THEN resolveExpression(d, stmt.initializer) ELSE d
    IN Resolver_define(e, stmt.name)

Resolver_visitIfStmt(r, stmt) ==
    LET c == resolveExpression(r, stmt.condition)
        t == resolveStatement(c, stmt.thenBranch)
    IN IF stmt.elseBranch # NoneNode THEN resolveStatement(t, stmt.elseBranch) ELSE t

(* the loop over function.params in resolveFunction(function, kind); the   *)
(* parameter function is written fn                                       *)
RECURSIVE declareParams(_, _)
declareParams(r, params) ==
    IF params = <<>> THEN r
    ELSE declareParams(Resolver_define(Resolver_declare(r, Head(params)), Head(params)),
                       Tail(params))

(* resolveFunction without the assignment that restores currentFunction    *)
resolveFunction_noRestore(r, fn, kind) ==
    endScope(resolveStatements(
                 declareParams(beginScope([r EXCEPT !.currentFunction = kind]), fn.params),
                 fn.body))

(* with Scoped(self) pops the scope when the body raises as well; the      *)
(* assignment after it is not reached then                                 *)
resolveFunction(r, fn, kind) ==
    LET enclosingFunction == r.currentFunction
        restore(b) == IF b.exc # "none" THEN endScope(b)
                      ELSE [endScope(b) EXCEPT !.currentFunction = enclosingFunction]
    IN restore(resolveStatements(
                   declareParams(beginScope([r EXCEPT !.currentFunction = kind]),
                                 fn.params),
                   fn.body))

Resolver_visitFunctionStmt(r, stmt) ==
    resolveFunction(Resolver_define(Resolver_declare(r, stmt.name), stmt.name), stmt,
                    "FUNCTION")

Resolver_visitReturnStmt(r, stmt) ==
    LET e == IF r.currentFunction = "NONE"
             THEN Lox_error(r, PyToken(Tok(stmt.keyword)), "Can't return from top-level code.")
             ELSE r
        initializer == FunctionTypeMember(e, "INITIALIZER")
        v == IF e.currentFunction = initializer.ret
             THEN Lox_error(e, PyToken(Tok(stmt.keyword)),
                            "Can't return a value from an initializer.")
             ELSE e
    IN IF stmt.value # NoneNode
       THEN IF initializer.exc # "none" THEN initializer
            ELSE resolveExpression(v, stmt.value)
       ELSE e

(* the loop over stmt.methods in visitClassStmt *)
RECURSIVE resolveMethods(_, _)
resolveMethods(r, methods) ==
    LET kind == FunctionTypeMember(r, IF Tok(Head(methods).name).lexeme
                                                 = <<"i", "n", "i", "t">>
                                             THEN "INITIALIZER" ELSE "METHOD")
        next(f) == IF f.exc # "none" THEN f ELSE resolveMethods(f, Tail(methods))
    IN IF methods = <<>> THEN r
       ELSE IF kind.exc # "none" THEN kind
       ELSE next(resolveFunction(r, Head(methods), kind.ret))

Resolver_visitClassStmt(r, stmt) ==
    LET enclosingClass == r.currentClass
        d == Resolver_define(Resolver_declare([r EXCEPT !.currentClass = "CLASS"], stmt.name),
                             stmt.name)
        inherit == IF Tok(stmt.name).lexeme = Tok(stmt.superclass.name).lexeme
                   THEN Lox_error(d, PyToken(Tok(stmt.superclass.name)),
                                  "Class can't inherit from itself.")
                   ELSE d
        bind(x, name) == [beginScope(x) EXCEPT !.scopes[Len(x.scopes) + 1] = Put(@, name, TRUE)]
        restore(m) == IF m.exc # "none" THEN m ELSE [m EXCEPT !.currentClass = enclosingClass]
    IN IF stmt.superclass # NoneNode
       THEN restore(endScope(endScope(resolveMethods(
                bind(bind(resolveExpression([inherit EXCEPT !.currentClass = "SUBCLASS"],
                                            stmt.superclass),
                          <<"s", "u", "p", "e", "r">>),
                     <<"t", "h", "i", "s">>),
                stmt.methods))))
       ELSE restore(endScope(resolveMethods(bind(d, <<"t", "h", "i", "s">>), stmt.methods)))

resolveStatement(r, stmt) ==
    CASE r.exc # "none" -> r
      [] stmt.t = "Function" -> Resolver_visitFunctionStmt(r, stmt)
      [] stmt.t = "Return" -> Resolver_visitReturnStmt(r, stmt)
      [] stmt.t = "Class" -> Resolver_visitClassStmt(r, stmt)
      [] stmt.t = "Block" -> endScope(resolveStatements(beginScope(r), stmt.statements))
      [] stmt.t = "Var" -> Resolver_visitVarStmt(r, stmt)
      [] stmt.t \in {"Expression", "Print"} -> resolveExpression(r, stmt.expression)
      [] stmt.t = "If" -> Resolver_visitIfStmt(r, stmt)
      [] stmt.t = "While" ->
            resolveStatement(resolveExpression(r, stmt.condition), stmt.body)

(* Resolver(self.interpreter): no scope, and the interpreter's locals *)
ResolverState ==
    [scopes |-> <<>>, locals |-> locals, reports |-> reports, hadError |-> hadErrorCls,
     exc |-> "none", currentFunction |-> "NONE", currentClass |-> "NONE", ret |-> "NONE"]

----------------------------------------------------------------------------
(* environment.py and interpreter.py.  An interpreter state i is a record  *)
(* [envs, env, locals, output, exc, err, val]: env is the index of         *)
(* self.env in envs, val the value the last evaluate returned, exc the     *)
(* class name of the exception being raised ("none" if none) and err the   *)
(* token and message of a LoxRuntimeError.  The visit methods modelled     *)
(* are those of the nodes Block, Var, Expression, If, Print, While and     *)
(* Variable, Assign, Binary, Grouping, Literal, Logical, Unary.            *)

NoErr == [token |-> 0, message |-> <<>>]

Val(i, value) == [i EXCEPT !.val = value]

(* raise LoxRuntimeError(token, message) *)
Throw(i, token, message) ==
    [i EXCEPT !.exc = "LoxRuntimeError", !.err = [token |-> token, message |-> message]]

Environment_define(i, e, name, value) == [i EXCEPT !.envs[e].values = Put(@, name, value)]

RECURSIVE Environment_get(_, _, _)
Environment_get(i, e, name) ==
    LET lexeme == Tok(name).lexeme
    IN IF lexeme \in DOMAIN i.envs[e].values THEN Val(i, i.envs[e].values[lexeme])
       ELSE IF i.envs[e].enclosing # 0 THEN Environment_get(i, i.envs[e].enclosing, name)
       ELSE Throw(i, name, <<"Undefined variable '">> \o lexeme \o <<"'.">>)

(* the environment distance steps up the chain; 0 when the walk reaches    *)
(* the top level first (LoxVariableAccessError)                            *)
RECURSIVE ancestor(_, _, _)
ancestor(i, e, distance) ==
    IF distance = 0 THEN e
    ELSE IF i.envs[e].enclosing = 0 THEN 0
    ELSE ancestor(i, i.envs[e].enclosing, distance - 1)

(* dict.get gives None for a name the ancestor does not hold.  The fields  *)
(* found and absent of the state count the calls of getAt and assignAt     *)
(* that met, or did not meet, a frame holding the name.                    *)
Environment_getAt(i, e, name, depth) ==
    LET a == ancestor(i, e, depth)
    IN IF a = 0 THEN [i EXCEPT !.exc = "LoxVariableAccessError", !.absent = @ + 1]
       ELSE IF name \in DOMAIN i.envs[a].values
       THEN [i EXCEPT !.val = i.envs[a].values[name], !.found = @ + 1]
       ELSE [i EXCEPT !.val = None, !.absent = @ + 1]

(* assign that defines the name at the top level where assign raises *)
RECURSIVE Environment_assign_define(_, _, _, _)
Environment_assign_define(i, e, name, value) ==
    LET lexeme == Tok(name).lexeme
    IN IF lexeme \in DOMAIN i.envs[e].values
       THEN [i EXCEPT !.envs[e].values = Put(@, lexeme, value)]
       ELSE IF i.envs[e].enclosing # 0
       THEN Environment_assign_define(i, i.envs[e].enclosing, name, value)
       ELSE [i EXCEPT !.envs[e].values = Put(@, lexeme, value)]

RECURSIVE Environment_assign(_, _, _, _)
Environment_assign(i, e, name, value) ==
    LET lexeme == Tok(name).lexeme
    IN IF lexeme \in DOMAIN i.envs[e].values
       THEN [i EXCEPT !.envs[e].values = Put(@, lexeme, value)]
       ELSE IF i.envs[e].enclosing # 0
       THEN Environment_assign(i, i.envs[e].enclosing, name, value)
       ELSE Throw(i, name, <<"Undefined variable '">> \o lexeme \o <<"'.">>)

Environment_assignAt(i, e, distance, name, value) ==
    LET a == ancestor(i, e, distance)
    IN IF a = 0 THEN [i EXCEPT !.exc = "LoxVariableAccessError", !.absent = @ + 1]
       ELSE IF Tok(name).lexeme \in DOMAIN i.envs[a].values
       THEN [i EXCEPT !.envs[a].values = Put(@, Tok(name).lexeme, value), !.found = @ + 1]
       ELSE [i EXCEPT !.envs[a].values = Put(@, Tok(name).lexeme, value), !.absent = @ + 1]

(* LoxFunction(declaration, closure, isInitializer) *)
LoxFunction(decl, closure, isInitializer) ==
    [k |-> "function", declaration |-> decl, closure |-> closure,
     isInitializer |-> isInitializer]

(* LoxClass(name, superclass, methods); superclass is a LoxClass or None,  *)
(* methods maps a name to a LoxFunction                                    *)
LoxClass(name, superclass, methods) ==
    [k |-> "class", name |-> name, superclass |-> superclass, methods |-> methods]

(* LoxClass.find_method: None when no class of the chain has the method *)
RECURSIVE find_method(_, _)
find_method(class, name) ==
    IF name \in DOMAIN class.methods THEN class.methods[name]
    ELSE IF class.superclass # None THEN find_method(class.superclass, name)
    ELSE None

(* isinstance(callee, LoxCallable) *)
isLoxCallable(value) == value.k \in {"clock", "function", "class"}

(* Clock.arity, LoxFunction.arity, LoxClass.arity *)
arity(callee) ==
    IF callee = Clock THEN 0
    ELSE IF callee.k = "function" THEN Len(callee.declaration.params)
    ELSE IF find_method(callee, <<"i", "n", "i", "t">>) # None
    THEN Len(find_method(callee, <<"i", "n", "i", "t">>).declaration.params)
    ELSE 0

(* LoxFunction.bind: the same function on a new environment that defines  *)
(* this                                                                    *)
LoxFunction_bind(i, fn, instance) ==
    LET n == [i EXCEPT !.envs = Append(@, [Environment(fn.closure) EXCEPT
                                              !.values = Put(@, <<"t", "h", "i", "s">>,
                                                             instance)])]
    IN Val(n, LoxFunction(fn.declaration, Len(n.envs), fn.isInitializer))

(* LoxInstance(lox_class): a new object with no fields *)
LoxInstance(class) == [lox_class |-> class, fields |-> <<>>]

(* the value that refers to the LoxInstance object instances[id], with the *)
(* class the object was made from                                          *)
InstanceRef(id, class) == [k |-> "instance", id |-> id, lox_class |-> class]

(* get that looks for a method before it looks at the fields *)
LoxInstance_get_methodFirst(i, instance, name) ==
    LET lexeme == Tok(name).lexeme
        object == i.instances[instance.id]
        method == find_method(object.lox_class, lexeme)
    IN IF method # None THEN LoxFunction_bind(i, method, instance)
       ELSE IF lexeme \in DOMAIN object.fields THEN Val(i, object.fields[lexeme])
       ELSE Throw(i, name, <<"U", "n", "d", "e", "f", "i", "n", "e", "d", " ", "p", "r", "o", "p", "e", "r", "t", "y", " ", "'">> \o lexeme \o <<"'", ".">>)

LoxInstance_get(i, instance, name) ==
    LET lexeme == Tok(name).lexeme
        object == i.instances[instance.id]
        method == find_method(object.lox_class, lexeme)
    IN IF lexeme \in DOMAIN object.fields THEN Val(i, object.fields[lexeme])
       ELSE IF method # None THEN LoxFunction_bind(i, method, instance)
       ELSE Throw(i, name, <<"U", "n", "d", "e", "f", "i", "n", "e", "d", " ", "p", "r", "o", "p", "e", "r", "t", "y", " ", "'">> \o lexeme \o <<"'", ".">>)

LoxInstance_set(i, instance, name, value) ==
    [i EXCEPT !.instances[instance.id].fields = Put(@, Tok(name).lexeme, value)]

(* the milliseconds that Clock.call reads from the host clock *)
Now == 0

(* Clock.call: int(time.time_ns() / 1_000_000), a Python int *)
Clock_call(i) == Val(i, [k |-> "int", v |-> Now])

(* the loop over declaration.params in LoxFunction.call *)
RECURSIVE defineParams(_, _, _, _)
defineParams(i, environment, params, arguments) ==
    IF params = <<>> THEN i
    ELSE defineParams(Environment_define(i, environment, Tok(Head(params)).lexeme,
                                         Head(arguments)),
                      environment, Tail(params), Tail(arguments))

isFloat(value) == value.k = "num"

(* isinstance(value, (float, str, bool)) *)
isFloatStrBool(value) == value.k \in {"num", "str", "bool"}

isTruthy(value) ==
    IF value = None THEN FALSE
    ELSE IF value.k = "bool" THEN value.b
    ELSE TRUE

(* Python ==: a bool compares as the number 1 or 0 *)
PyNumber(value) == IF value.k = "bool" THEN Num(IF value.b THEN 1 ELSE 0, 1) ELSE value

PyEq(a, b) ==
    IF a.k \in {"num", "bool"} /\ b.k \in {"num", "bool"} THEN PyNumber(a) = PyNumber(b)
    ELSE a = b

isEqual(a, b) ==
    IF a = None /\ b = None THEN TRUE
    ELSE IF a = None THEN FALSE
    ELSE PyEq(a, b)

DigitChar(d) == CHOOSE c \in Digits : DigitVal(c) = d

RECURSIVE NatChars(_)
NatChars(n) == IF n < 10 THEN <<DigitChar(n)>> ELSE NatChars(n \div 10) \o <<DigitChar(n % 10)>>

(* stringify: "nil", f"{value:g}" for a float, str(value) otherwise.  The  *)
(* g format is modelled for the whole numbers below 10^6, which it writes  *)
(* without a fraction and without an exponent, and for the halves between  *)
(* them, which it writes with the fraction .5                              *)
stringify(value) ==
    CASE value = None -> <<"n", "i", "l">>
      [] value.k = "num" /\ value.d = 1 /\ Abs(value.n) < 1000000 ->
            (IF value.n < 0 THEN <<"-">> ELSE <<>>) \o NatChars(Abs(value.n))
      [] value.k = "num" /\ value.d = 2 /\ Abs(value.n) < 1000000 ->
            (IF value.n < 0 THEN <<"-">> ELSE <<>>) \o NatChars(Abs(value.n) \div 2)
                \o <<".", "5">>
      [] value.k = "bool" ->
            IF value.b THEN <<"T", "r", "u", "e">> ELSE <<"F", "a", "l", "s", "e">>
      [] value.k = "str" -> value.s
      [] value.k = "int" -> NatChars(value.v)
      [] value.k = "function" ->
            <<"<", "f", "n", " ">> \o Tok(value.declaration.name).lexeme \o <<" ", ">">>
      [] value.k = "class" -> <<"<", "C", "l", "a", "s", "s", " ">> \o value.name \o <<">">>
      [] value.k = "instance" ->
            <<"<">> \o value.lox_class.name \o <<" ", "i", "n", "s", "t", "a", "n", "c", "e", ">">>
      [] value = Clock -> <<"<", "f", "n", " ", "c", "l", "o", "c", "k", " ", "(", "b", "u", "i", "l", "t", "i", "n", ")", ">">>

checkNumberOperand(i, operator, operand) ==
    IF isFloat(operand) THEN i
    ELSE Throw(i, operator, <<"Operand must be a number">>)

checkNumberOperands(i, operator, left, right) ==
    IF isFloat(left) /\ isFloat(right) THEN i
    ELSE Throw(i, operator, <<"Operands must be a number">>)

Less(a, b) == a.n * b.d < b.n * a.d

(* lookupVariable by name from the current environment, without the       *)
(* resolved distance                                                      *)
lookupVariable_byName(i, name, expr) == Environment_get(i, i.env, name)

lookupVariable(i, name, expr) ==
    IF expr \in DOMAIN i.locals
    THEN Environment_getAt(i, i.env, Tok(name).lexeme, i.locals[expr])
    ELSE Environment_get(i, 1, name)

RECURSIVE evaluate(_, _), execute(_, _), executeStatements(_, _), whileLoop(_, _),
          Interpreter_visitCallExpr(_, _), Interpreter_visitGetExpr(_, _),
          Interpreter_visitSetExpr(_, _)

Interpreter_visitUnaryExpr(i, expr) ==
    LET apply(r) ==
            LET right == r.val
                c == checkNumberOperand(r, expr.operator, right)
            IN IF r.exc # "none" THEN r
               ELSE IF Tok(expr.operator).type = "MINUS"
               THEN IF c.exc # "none" THEN c
                    ELSE CASE right.n # 0 -> Val(c, Num(-right.n, right.d))
               ELSE IF Tok(expr.operator).type = "BANG" THEN Val(r, Bool(~isTruthy(right)))
               ELSE Val(r, None)
    IN apply(evaluate(i, expr.right))

(* the arms of the match of visitBinaryExpr on two floats *)
BinaryOnFloats(i, type, left, right) ==
    CASE type = "MINUS" -> Val(i, Num(left.n * right.d - right.n * left.d, left.d * right.d))
      [] type = "STAR" -> Val(i, Num(left.n * right.n, left.d * right.d))
      [] type = "SLASH" ->
            IF right.n = 0 THEN [i EXCEPT !.exc = "ZeroDivisionError"]
            ELSE Val(i, Num((IF right.n < 0 THEN -1 ELSE 1) * left.n * right.d,
                            left.d * Abs(right.n)))
      [] type = "GREATER" -> Val(i, Bool(Less(right, left)))
      [] type = "GREATER_EQUAL" -> Val(i, Bool(~Less(left, right)))
      [] type = "LESS" -> Val(i, Bool(Less(left, right)))
      [] type = "LESS_EQUAL" -> Val(i, Bool(~Less(right, left)))

(* the body of visitBinaryExpr after its two evaluate calls; r is the     *)
(* state after the second one                                              *)
BinaryOnOperands(r, expr, left, right) ==
    LET type == Tok(expr.operator).type
        c == checkNumberOperands(r, expr.operator, left, right)
    IN IF ~isFloatStrBool(left) \/ ~isFloatStrBool(right) THEN Val(r, None)
       ELSE IF type \in {"MINUS", "STAR", "SLASH", "GREATER", "GREATER_EQUAL", "LESS",
                         "LESS_EQUAL"}
       THEN IF c.exc # "none" THEN c ELSE BinaryOnFloats(r, type, left, right)
       ELSE IF type = "EQUAL_EQUAL" THEN Val(r, Bool(isEqual(left, right)))
       ELSE IF type = "BANG_EQUAL" THEN Val(r, Bool(~isEqual(left, right)))
       ELSE IF type = "PLUS"
       THEN IF isFloat(left) /\ isFloat(right)
            THEN Val(r, Num(left.n * right.d + right.n * left.d, left.d * right.d))
            ELSE IF left.k = "str" /\ right.k = "str" THEN Val(r, Str(left.s \o right.s))
            ELSE Throw(r, expr.operator, <<"Operands must be two numbers or two strings">>)
       ELSE Val(r, None)

Interpreter_visitBinaryExpr(i, expr) ==
    LET withLeft(l) ==
            LET withRight(r) == IF r.exc # "none" THEN r
                                ELSE BinaryOnOperands(r, expr, l.val, r.val)
            IN IF l.exc # "none" THEN l ELSE withRight(evaluate(l, expr.right))
    IN withLeft(evaluate(i, expr.left))

(* visitLogicalExpr that always evaluates the right operand *)
Interpreter_visitLogicalExpr_eager(i, expr) ==
    LET rest(l) == IF l.exc # "none" THEN l ELSE evaluate(l, expr.right)
    IN rest(evaluate(i, expr.left))

Interpreter_visitLogicalExpr(i, expr) ==
    LET rest(l) ==
            IF l.exc # "none" THEN l
            ELSE IF Tok(expr.operator).type = "OR"
            THEN IF isTruthy(l.val) THEN l ELSE evaluate(l, expr.right)
            ELSE IF ~isTruthy(l.val) THEN l ELSE evaluate(l, expr.right)
    IN rest(evaluate(i, expr.left))

Interpreter_visitAssignExpr(i, expr) ==
    LET store(v) ==
            LET a == IF expr \in DOMAIN v.locals
                     THEN Environment_assignAt(v, v.env, v.locals[expr], expr.name, v.val)
                     ELSE Environment_assign(v, 1, expr.name, v.val)
            IN IF v.exc # "none" THEN v
               ELSE IF a.exc # "none" THEN a
               ELSE Val(a, v.val)
    IN store(evaluate(i, expr.value))

evaluate(i, expr) ==
    CASE expr.t = "Literal" -> Val(i, expr.value)
      [] expr.t = "Logical" -> Interpreter_visitLogicalExpr(i, expr)
      [] expr.t = "Grouping" -> evaluate(i, expr.expression)
      [] expr.t = "Unary" -> Interpreter_visitUnaryExpr(i, expr)
      [] expr.t = "Binary" -> Interpreter_visitBinaryExpr(i, expr)
      [] expr.t = "Variable" -> lookupVariable(i, expr.name, expr)
      [] expr.t = "Assign" -> Interpreter_visitAssignExpr(i, expr)
      [] expr.t = "Call" -> Interpreter_visitCallExpr(i, expr)
      [] expr.t = "Get" -> Interpreter_visitGetExpr(i, expr)
      [] expr.t = "Set" -> Interpreter_visitSetExpr(i, expr)
      [] expr.t = "This" -> lookupVariable(i, expr.keyword, expr)
      (* the Interpreter class defines no visitSuperExpr *)
      [] expr.t = "Super" -> [i EXCEPT !.exc = "AttributeError"]

(* executeBlock that restores self.env after the loop, not in a finally    *)
(* clause                                                                  *)
executeBlock_noRestore(i, stmts, environment) ==
    LET previous == i.env
        after(b) == IF b.exc = "none" THEN [b EXCEPT !.env = previous] ELSE b
    IN after(executeStatements([i EXCEPT !.env = environment], stmts))

(* try: self.env = environment; the statements; finally: self.env = previous *)
executeBlock(i, stmts, environment) ==
    LET previous == i.env
        finally(b) == [b EXCEPT !.env = previous]
    IN finally(executeStatements([i EXCEPT !.env = environment], stmts))

(* LoxFunction.call: a new environment on the closure, the parameters      *)
(* defined in it, the body executed, and control_flow.Return caught         *)
LoxFunction_call(i, fn, arguments) ==
    LET n == [i EXCEPT !.envs = Append(@, Environment(fn.closure))]
        environment == Len(n.envs)
        except(b) ==
            IF b.exc = "Return"
            THEN IF fn.isInitializer
                 THEN Environment_getAt([b EXCEPT !.exc = "none"], fn.closure,
                                        <<"t", "h", "i", "s">>, 0)
                 ELSE [b EXCEPT !.exc = "none"]
            ELSE IF b.exc # "none" THEN b
            ELSE IF fn.isInitializer
            THEN Environment_getAt(b, fn.closure, <<"t", "h", "i", "s">>, 0)
            ELSE Val(b, None)
    IN except(executeBlock(defineParams(n, environment, fn.declaration.params, arguments),
                           fn.declaration.body, environment))

(* LoxClass.call: a new instance, initialised by init when the class has   *)
(* one                                                                     *)
LoxClass_call(i, class, arguments) ==
    LET n == [i EXCEPT !.instances = Append(@, LoxInstance(class))]
        instance == InstanceRef(Len(n.instances), class)
        initializer == find_method(class, <<"i", "n", "i", "t">>)
        return(c) == IF c.exc # "none" THEN c ELSE Val(c, instance)
        bound(b) == return(LoxFunction_call(b, b.val, arguments))
    IN IF initializer # None THEN bound(LoxFunction_bind(n, initializer, instance))
       ELSE Val(n, instance)

(* the loop over expr.arguments in visitCallExpr; the list is left in args *)
RECURSIVE evaluateArguments(_, _, _)
evaluateArguments(i, exprs, arguments) ==
    IF exprs = <<>> THEN [i EXCEPT !.args = arguments]
    ELSE LET next(a) == IF a.exc # "none" THEN a
                        ELSE evaluateArguments(a, Tail(exprs), Append(arguments, a.val))
         IN next(evaluate(i, Head(exprs)))

(* visitCallExpr that checks the callee and the number of argument         *)
(* expressions before it evaluates the arguments                           *)
Interpreter_visitCallExpr_checkFirst(i, expr) ==
    LET invoke(a, callee) ==
            IF a.exc # "none" THEN a
            ELSE IF callee = Clock THEN Clock_call(a)
            ELSE IF callee.k = "class" THEN LoxClass_call(a, callee, a.args)
            ELSE LoxFunction_call(a, callee, a.args)
        arguments(c) ==
            IF c.exc # "none" THEN c
            ELSE IF ~isLoxCallable(c.val)
            THEN Throw(c, expr.paren, <<"C", "a", "n", " ", "o", "n", "l", "y", " ", "c", "a", "l", "l", " ", "f", "u", "n", "c", "t", "i", "o", "n", "s", " ", "a", "n", "d", " ", "c", "l", "a", "s", "s", "e", "s", ".">>)
            ELSE IF Len(expr.arguments) # arity(c.val)
            THEN Throw(c, expr.paren,
                       <<"E", "x", "p", "e", "c", "t", "e", "d", " ">> \o NatChars(arity(c.val))
                           \o <<" ", "a", "r", "g", "u", "m", "e", "n", "t", "s", ",", " ", "b", "u", "t", " ", "g", "o", "t", " ">>
                           \o NatChars(Len(expr.arguments)) \o <<".">>)
            ELSE invoke(evaluateArguments(c, expr.arguments, <<>>), c.val)
    IN arguments(evaluate(i, expr.callee))

Interpreter_visitCallExpr(i, expr) ==
    LET invoke(a, callee) ==
            IF a.exc # "none" THEN a
            ELSE IF ~isLoxCallable(callee)
            THEN Throw(a, expr.paren, <<"C", "a", "n", " ", "o", "n", "l", "y", " ", "c", "a", "l", "l", " ", "f", "u", "n", "c", "t", "i", "o", "n", "s", " ", "a", "n", "d", " ", "c", "l", "a", "s", "s", "e", "s", ".">>)
            ELSE IF Len(a.args) # arity(callee)
            THEN Throw(a, expr.paren,
                       <<"E", "x", "p", "e", "c", "t", "e", "d", " ">> \o NatChars(arity(callee))
                           \o <<" ", "a", "r", "g", "u", "m", "e", "n", "t", "s", ",", " ", "b", "u", "t", " ", "g", "o", "t", " ">>
                           \o NatChars(Len(a.args)) \o <<".">>)
            ELSE IF callee = Clock THEN Clock_call(a)
            ELSE IF callee.k = "class" THEN LoxClass_call(a, callee, a.args)
            ELSE LoxFunction_call(a, callee, a.args)
        arguments(c) == IF c.exc # "none" THEN c
                        ELSE invoke(evaluateArguments(c, expr.arguments, <<>>), c.val)
    IN arguments(evaluate(i, expr.callee))

Interpreter_visitGetExpr(i, expr) ==
    LET get(o) == IF o.exc # "none" THEN o
                  ELSE IF o.val.k = "instance" THEN LoxInstance_get(o, o.val, expr.name)
                  ELSE Throw(o, expr.name, <<"O", "n", "l", "y", " ", "i", "n", "s", "t", "a", "n", "c", "e", "s", " ", "h", "a", "v", "e", " ", "p", "r", "o", "p", "e", "r", "t", "i", "e", "s", ".">>)
    IN get(evaluate(i, expr.object))

Interpreter_visitSetExpr(i, expr) ==
    LET set(o) ==
            LET store(v) == IF v.exc # "none" THEN v
                            ELSE Val(LoxInstance_set(v, o.val, expr.name, v.val), v.val)
            IN IF o.exc # "none" THEN o
               ELSE IF o.val.k # "instance"
               THEN Throw(o, expr.name, <<"O", "n", "l", "y", " ", "i", "n", "s", "t", "a", "n", "c", "e", "s", " ", "h", "a", "v", "e", " ", "f", "i", "e", "l", "d", "s", ".">>)
               ELSE store(evaluate(o, expr.value))
    IN set(evaluate(i, expr.object))

(* visitClassStmt defines the name as None, collects the methods and calls *)
(* LoxClass(stmt.name.lexeme, methods): two arguments where                *)
(* LoxClass.__init__ takes name, superclass and methods, a TypeError       *)
Interpreter_visitClassStmt(i, stmt) ==
    [Environment_define(i, i.env, Tok(stmt.name).lexeme, None) EXCEPT !.exc = "TypeError"]

Interpreter_visitFunctionStmt(i, stmt) ==
    Environment_define(i, i.env, Tok(stmt.name).lexeme, LoxFunction(stmt, i.env, FALSE))

(* raise control_flow.Return(value): the value travels in val *)
Interpreter_visitReturnStmt(i, stmt) ==
    LET raise(v) == IF v.exc # "none" THEN v ELSE [v EXCEPT !.exc = "Return"]
    IN raise(IF stmt.value # NoneNode THEN evaluate(i, stmt.value) ELSE Val(i, None))

Interpreter_visitPrintStmt(i, stmt) ==
    LET print(v) == IF v.exc # "none" THEN v
                    ELSE [v EXCEPT !.output = Append(@, stringify(v.val))]
    IN print(evaluate(i, stmt.expression))

Interpreter_visitVarStmt(i, stmt) ==
    LET define(v) == IF v.exc # "none" THEN v
                     ELSE Environment_define(v, v.env, Tok(stmt.name).lexeme, v.val)
    IN define(IF stmt.initializer # NoneNode THEN evaluate(i, stmt.initializer)
              ELSE Val(i, None))

(* a block executed in the current environment, without a frame of its own *)
Interpreter_visitBlockStmt_sameFrame(i, stmt) == executeBlock(i, stmt.statements, i.env)

(* Environment(self.env) is a new object *)
Interpreter_visitBlockStmt(i, stmt) ==
    LET n == [i EXCEPT !.envs = Append(@, Environment(i.env))]
    IN executeBlock(n, stmt.statements, Len(n.envs))

Interpreter_visitIfStmt(i, stmt) ==
    LET branch(c) ==
            IF c.exc # "none" THEN c
            ELSE IF isTruthy(c.val) THEN execute(c, stmt.thenBranch)
            ELSE IF stmt.elseBranch # NoneNode THEN execute(c, stmt.elseBranch)
            ELSE c
    IN branch(evaluate(i, stmt.condition))

(* the loop of visitWhileStmt *)
whileLoop(i, stmt) ==
    LET again(b) == IF b.exc # "none" THEN b ELSE whileLoop(b, stmt)
        body(c) == IF c.exc # "none" THEN c
                   ELSE IF ~isTruthy(c.val) THEN c
                   ELSE again(execute(c, stmt.body))
    IN body(evaluate(i, stmt.condition))

execute(i, stmt) ==
    CASE stmt.t = "Expression" -> evaluate(i, stmt.expression)
      [] stmt.t = "Print" -> Interpreter_visitPrintStmt(i, stmt)
      [] stmt.t = "Var" -> Interpreter_visitVarStmt(i, stmt)
      [] stmt.t = "Block" -> Interpreter_visitBlockStmt(i, stmt)
      [] stmt.t = "If" -> Interpreter_visitIfStmt(i, stmt)
      [] stmt.t = "While" -> whileLoop(i, stmt)
      [] stmt.t = "Function" -> Interpreter_visitFunctionStmt(i, stmt)
      [] stmt.t = "Return" -> Interpreter_visitReturnStmt(i, stmt)
      [] stmt.t = "Class" -> Interpreter_visitClassStmt(i, stmt)

(* for stmt in statements: self.execute(stmt), up to the first exception *)
executeStatements(i, stmts) ==
    IF stmts = <<>> THEN i
    ELSE LET next(e) == IF e.exc # "none" THEN e ELSE executeStatements(e, Tail(stmts))
         IN next(execute(i, Head(stmts)))

(* Lox.runtimeError and Lox.reportRuntimeError on a host state h *)
Lox_runtimeError(h, err) ==
    [h EXCEPT !.runtimeReports = Append(@, [line |-> Tok(err.token).line,
                                           message |-> err.message]),
              !.hadRuntimeError = TRUE]

(* interpret that swallows the runtime error without reporting it *)
interpret_unreported(i, stmts) == [executeStatements(i, stmts) EXCEPT !.exc = "none"]

(* interpret catches LoxRuntimeError only *)
interpret(i, stmts) ==
    LET except(e) == IF e.exc = "LoxRuntimeError"
                     THEN Lox_runtimeError([e EXCEPT !.exc = "none"], e.err)
                     ELSE e
    IN except(executeStatements(i, stmts))

(* the interpreter of the Lox object, with the runtime error sink *)
InterpreterState ==
    [envs |-> envs, env |-> 1, instances |-> instances, locals |-> locals,
     output |-> output, exc |-> "none",
     err |-> NoErr, val |-> None, args |-> <<>>, runtimeReports |-> runtimeReports,
     hadRuntimeError |-> hadRuntimeErrorCls, found |-> 0, absent |-> 0]

----------------------------------------------------------------------------
(* lox.py: Lox.run and Lox.runFile, one action per call they make.  The    *)
(* scanner and the parser take the steps of ScanToken, ScanEOF,            *)
(* ParseDeclaration and ParseReturn.                                       *)

(* Parser(tokens), and the empty list of parse *)
NewParser ==
    /\ pc = "scanned"
    /\ pc' = "parse"
    /\ pcurrent' = 0
    /\ statements' = <<>>
    /\ UNCHANGED <<scanVars, tokens, hostVars, loxVars, interpreterVars, resolver, exc>>

(* if self.hadError: return; Resolver(self.interpreter).resolveStatements  *)
RunResolver ==
    /\ pc = "parsed"
    /\ IF hadErrorSelf
       THEN /\ pc' = "returned"
            /\ UNCHANGED <<hostVars, locals, resolver, exc>>
       ELSE LET resolved(r) ==
                    /\ locals' = r.locals
                    /\ resolver' = [scopes |-> r.scopes,
                                     currentFunction |-> r.currentFunction,
                                     currentClass |-> r.currentClass]
                    /\ reports' = r.reports
                    /\ hadErrorCls' = r.hadError
                    /\ exc' = r.exc
                    /\ pc' = IF r.exc = "none" THEN "resolved" ELSE "raised"
            IN resolved(resolveStatements(ResolverState, statements))
    /\ UNCHANGED <<scanVars, tokens, parseVars, loxVars, envs, instances, output,
                   interpretCalls>>

(* if self.hadError: return; return self.interpreter.interpret(statements) *)
RunInterpreter ==
    /\ pc = "resolved"
    /\ IF hadErrorSelf
       THEN /\ pc' = "returned"
            /\ UNCHANGED <<envs, instances, output, interpretCalls, runtimeReports,
                           hadRuntimeErrorCls, exc>>
       ELSE LET interpreted(i) ==
                    /\ interpretCalls' = interpretCalls + 1
                    /\ envs' = i.envs
                    /\ instances' = i.instances
                    /\ output' = i.output
                    /\ runtimeReports' = i.runtimeReports
                    /\ hadRuntimeErrorCls' = i.hadRuntimeError
                    /\ exc' = i.exc
                    /\ pc' = IF i.exc = "none" THEN "returned" ELSE "raised"
            IN interpreted(interpret(InterpreterState, statements))
    /\ UNCHANGED <<scanVars, tokens, parseVars, hostVars, locals, resolver, hadErrorSelf, exitCode>>

(* runFile after run has returned: the two exit calls *)
RunFileExit ==
    /\ pc = "returned"
    /\ pc' = "exited"
    /\ exitCode' = IF hadErrorSelf THEN <<65>>
                   ELSE IF hadRuntimeErrorCls THEN <<70>>
                   ELSE <<>>
    /\ UNCHANGED <<scanVars, tokens, parseVars, hostVars, interpreterVars, resolver, hadErrorSelf,
                   hadRuntimeErrorCls, runtimeReports, exc>>

NextRun ==
    \/ ScanToken
    \/ ScanEOF
    \/ NewParser
    \/ ParseDeclaration
    \/ ParseReturn
    \/ RunResolver
    \/ RunInterpreter
    \/ RunFileExit

(* Lox().runFile on every file made of at most MaxFragments of these       *)
(* pieces of source text                                                   *)

MaxFragments == 3

RunFragments ==
    {<<"p", "r", "i", "n", "t", " ", "1", ";">>,
     <<"1", "=", "2", ";">>,
     <<"v", "a", "r", " ", "a", "=", "a", ";">>,
     <<"v", "a", "r", " ", "a", "=", "1", ";">>,
     <<"p", "r", "i", "n", "t", " ", "a", "=", "2", ";">>,
     <<"{">>,
     <<"}">>,
     <<";">>,
     <<"@">>}

RECURSIVE Concat(_)
Concat(seqs) == IF seqs = <<>> THEN <<>> ELSE Head(seqs) \o Concat(Tail(seqs))

RunSources == {Concat(f) : f \in Strings(RunFragments, MaxFragments)}

InitRun ==
    /\ source \in RunSources
    /\ start = 0
    /\ current = 0
    /\ line = 1
    /\ tokens = <<>>
    /\ pcurrent = 0
    /\ statements = <<>>
    /\ pc = "scanTokens"
    /\ exc = "none"
    /\ reports = <<>>
    /\ hadErrorCls = FALSE
    /\ LoxInit

SpecRun == InitRun /\ [][NextRun]_vars

(* C1: once a static error has been reported for the source,               *)
(* Interpreter.interpret is not invoked for it: nothing is printed,        *)
(* nothing is defined in an environment, no runtime error is reported.     *)
C1_NoInterpretAfterStaticError ==
    (Len(reports) > 0) =>
        /\ interpretCalls = 0
        /\ output = <<>>
        /\ runtimeReports = <<>>
        /\ Len(envs) = 1
        /\ DOMAIN envs[1].values = {<<"c", "l", "o", "c", "k">>}

(* C2: runFile ends with exit(65) if a static error was reported, with     *)
(* exit(70) if none was but a runtime error was reported, and without a    *)
(* call of exit otherwise.                                                 *)
C2_ExitCodes ==
    (pc = "exited") =>
        exitCode = IF Len(reports) > 0 THEN <<65>>
                   ELSE IF Len(runtimeReports) > 0 THEN <<70>>
                   ELSE <<>>

----------------------------------------------------------------------------
(* Parser(tokens).parse() on the chains e0 op e1 ... op en ; of one to      *)
(* MaxChain logical operators, each or or and, over the operands a and 1.   *)

MaxChain == 3

LogicOperands == {Tk("IDENTIFIER", <<"a">>), NumberToken("1")}

LogicOps == {Tk("OR", <<"o", "r">>), Tk("AND", <<"a", "n", "d">>)}

(* e0 op e1 ... op en, from the operands es and the operators ops *)
Chain(es, ops) ==
    [k \in 1..(2 * Len(ops) + 1) |-> IF k % 2 = 1 THEN es[(k + 1) \div 2] ELSE ops[k \div 2]]

InitLogic ==
    \E n \in 1..MaxChain :
      \E es \in [1..(n + 1) -> LogicOperands], ops \in [1..n -> LogicOps] :
        InitParser(Chain(es, ops) \o <<Tk("SEMICOLON", <<";">>), EOFToken(1)>>)

SpecLogic == InitLogic /\ [][NextParse]_vars

(* the operands of a tree of Logical nodes, left to right *)
RECURSIVE LogicalLeaves(_)
LogicalLeaves(e) ==
    IF e.t = "Logical" THEN LogicalLeaves(e.left) \o LogicalLeaves(e.right) ELSE <<e>>

(* the operands of the chain in tokens, as primary parses each of them *)
ChainOperands ==
    [k \in 1..((Len(tokens) - 1) \div 2) |->
        primary([ParserState EXCEPT !.cur = 2 * (k - 1)]).node]

IsOr(e) == e.t = "Logical" /\ Tok(e.operator).type = "OR"

(* some and node has an or node as an operand *)
RECURSIVE OrUnderAnd(_)
OrUnderAnd(e) ==
    /\ e.t = "Logical"
    /\ \/ Tok(e.operator).type = "AND" /\ (IsOr(e.left) \/ IsOr(e.right))
       \/ OrUnderAnd(e.left)
       \/ OrUnderAnd(e.right)

(* C11: a chain of any number of or and and operators parses without a     *)
(* report into one expression statement whose nested Logical nodes hold    *)
(* every operand in order, and no or node is an operand of an and node     *)
(* (and binds tighter than or).                                            *)
C11_LogicalChains ==
    (pc = "parsed") =>
        /\ reports = <<>>
        /\ Len(statements) = 1
        /\ LogicalLeaves(statements[1].expression) = ChainOperands
        /\ ~OrUnderAnd(statements[1].expression)

----------------------------------------------------------------------------
(* Parser(tokens).parse() on a call  f(x, ..., x);  and on a declaration    *)
(* fun f(x, ..., x) {}  with n items: a few items, and from one below       *)
(* MAX_ARGUMENT_COUNT to MaxOver above it.                                  *)

MaxFew == 2

MaxOver == 3

ItemCounts == (1..MaxFew) \cup ((MAX_ARGUMENT_COUNT - 1)..(MAX_ARGUMENT_COUNT + MaxOver))

NameTokens == {Tk("IDENTIFIER", <<"a">>), Tk("IDENTIFIER", <<"b">>)}

ArgumentTokens ==
    NameTokens \cup {NumberToken("1"), Tk("NIL", <<"n", "i", "l">>)}

(* n times the token x, with commas between *)
Items(x, n) == [k \in 1..(2 * n - 1) |-> IF k % 2 = 1 THEN x ELSE Tk("COMMA", <<",">>)]

InitLimit ==
    \E n \in ItemCounts, f \in NameTokens :
      \/ \E x \in ArgumentTokens :
            InitParser(<<f, Tk("LEFT_PAREN", <<"(">>)>> \o Items(x, n)
                       \o <<Tk("RIGHT_PAREN", <<")">>), Tk("SEMICOLON", <<";">>),
                            EOFToken(1)>>)
      \/ \E x \in NameTokens :
            InitParser(<<Tk("FUN", <<"f", "u", "n">>), f, Tk("LEFT_PAREN", <<"(">>)>>
                       \o Items(x, n)
                       \o <<Tk("RIGHT_PAREN", <<")">>), Tk("LEFT_BRACE", <<"{">>),
                            Tk("RIGHT_BRACE", <<"}">>), EOFToken(1)>>)

SpecLimit == InitLimit /\ [][NextParse]_vars

(* the number of items written between the parentheses *)
ItemsWritten == Cardinality({k \in 1..Len(tokens) : tokens[k].type = "COMMA"}) + 1

(* the argument list of a call statement, the parameter list of a function *)
ItemsOf(stmt) ==
    IF stmt.t = "Function" THEN stmt.params ELSE stmt.expression.arguments

(* C12: the parser reports "Can't have more than 255 parameters/arguments." *)
(* if and only if the list has more than 255 items; the report does not     *)
(* stop the parse, and the node returned carries all the items.             *)
C12_ArgumentLimit ==
    (pc = "parsed") =>
        /\ (reports # <<>>) <=> (ItemsWritten > MAX_ARGUMENT_COUNT)
        /\ Len(statements) = 1
        /\ statements[1].t \in {"Function", "Expression"}
        /\ Len(ItemsOf(statements[1])) = ItemsWritten

----------------------------------------------------------------------------
(* Environment.assign(name, value) called on the innermost of a chain of    *)
(* one to MaxDepth environments. tokens holds the name and a literal whose  *)
(* value is assigned; each environment binds some of the names a and b.     *)

MaxDepth == 3

EnvNames == {<<"a">>, <<"b">>}

(* the values a binding holds before the call *)
EnvValues == {None, Num(1, 1)}

(* the dicts an environment may hold *)
EnvBindings == UNION {[keys -> EnvValues] : keys \in SUBSET EnvNames}

InitEnv ==
    /\ source = <<>>
    /\ start = 0
    /\ current = 0
    /\ line = 1
    /\ \E name \in EnvNames, d \in {"1", "2"} :
          tokens = <<Tk("IDENTIFIER", name), NumberToken(d), EOFToken(1)>>
    /\ pcurrent = 0
    /\ statements = <<>>
    /\ pc = "env"
    /\ exc = "none"
    /\ reports = <<>>
    /\ hadErrorCls = FALSE
    /\ hadErrorSelf = FALSE
    /\ hadRuntimeErrorCls = FALSE
    /\ runtimeReports = <<>>
    /\ exitCode = <<>>
    /\ locals = <<>>
    /\ resolver = NewResolver
    /\ \E depth \in 1..MaxDepth : \E bs \in [1..depth -> EnvBindings] :
          envs = [k \in 1..depth |->
                    [values |-> IF k = 1 THEN Put(bs[k], <<"c", "l", "o", "c", "k">>, Clock)
                                ELSE bs[k],
                     enclosing |-> k - 1]]
    /\ instances = <<>>
    /\ output = <<>>
    /\ interpretCalls = 0

(* environment.assign(name, value) on the innermost environment; a          *)
(* LoxRuntimeError it raises is kept in exc and reported as                 *)
(* Interpreter.interpret reports it.                                        *)
EnvAssign ==
    /\ pc = "env"
    /\ LET assigned(r) ==
               LET reported == IF r.exc = "LoxRuntimeError"
                               THEN Lox_runtimeError(r, r.err) ELSE r
               IN /\ envs' = r.envs
                  /\ exc' = r.exc
                  /\ runtimeReports' = reported.runtimeReports
                  /\ hadRuntimeErrorCls' = reported.hadRuntimeError
       IN assigned(Environment_assign(InterpreterState, Len(envs), 0, Tok(1).literal))
    /\ pc' = "assigned"
    /\ UNCHANGED <<scanVars, tokens, parseVars, hostVars, hadErrorSelf, exitCode,
                   locals, resolver, instances, output, interpretCalls>>

SpecEnv == InitEnv /\ [][EnvAssign]_vars

(* the environments of the chain that bind the name in tokens *)
Holders == {k \in 1..Len(envs) : Tok(0).lexeme \in DOMAIN envs[k].values}

Innermost(ks) == CHOOSE k \in ks : \A j \in ks : j <= k

(* C13: Environment.assign changes exactly one binding, the one of the      *)
(* name in the innermost environment of the chain that contains it, to the  *)
(* value, and raises nothing; if no environment of the chain contains the   *)
(* name it raises LoxRuntimeError "Undefined variable 'name'." and changes  *)
(* nothing. The set of keys of every environment stays the same.            *)
C13_AssignInnermost ==
    [][(pc = "env") =>
        /\ Len(envs') = Len(envs)
        /\ \A k \in 1..Len(envs) :
              /\ DOMAIN envs'[k].values = DOMAIN envs[k].values
              /\ envs'[k].enclosing = envs[k].enclosing
        /\ IF Holders = {}
           THEN /\ envs' = envs
                /\ exc' = "LoxRuntimeError"
                /\ runtimeReports' =
                      <<[line |-> 1,
                         message |-> <<"Undefined variable '">> \o Tok(0).lexeme \o <<"'.">>]>>
           ELSE /\ exc' = "none"
                /\ runtimeReports' = <<>>
                /\ envs'[Innermost(Holders)].values[Tok(0).lexeme] = Tok(1).literal
                /\ \A k \in 1..Len(envs) : \A key \in DOMAIN envs[k].values :
                      (k # Innermost(Holders) \/ key # Tok(0).lexeme)
                          => envs'[k].values[key] = envs[k].values[key]]_vars

(* the binding of an enclosing environment was assigned a new value while   *)
(* an outer binding of the same name kept another one                       *)
C13_Witness ==
    /\ pc = "assigned"
    /\ exc = "none"
    /\ Len(envs) = MaxDepth
    /\ Tok(0).lexeme \notin DOMAIN envs[MaxDepth].values
    /\ Tok(0).lexeme \in DOMAIN envs[MaxDepth - 1].values
    /\ envs[MaxDepth - 1].values[Tok(0).lexeme] = Tok(1).literal
    /\ Tok(0).lexeme \in DOMAIN envs[1].values
    /\ envs[1].values[Tok(0).lexeme] # Tok(1).literal

(* the name was bound nowhere and the call raised *)
C13_WitnessUndefined ==
    /\ pc = "assigned"
    /\ exc = "LoxRuntimeError"
    /\ Len(envs) > 1

----------------------------------------------------------------------------
(* Lox().runFile on  print A op B;  for every binary operator op and every  *)
(* pair of operands A, B out of nil, the booleans, two numbers, two strings *)
(* and the callable clock.                                                  *)

BinaryOperands ==
    {<<"n", "i", "l">>, <<"t", "r", "u", "e">>, <<"f", "a", "l", "s", "e">>,
     <<"1">>, <<"2">>, <<"\"", "s", "\"">>, <<"\"", "t", "\"">>,
     <<"c", "l", "o", "c", "k">>}

BinaryOperators ==
    {<<"=", "=">>, <<"!", "=">>, <<"-">>, <<"*">>, <<"/">>, <<">">>, <<">", "=">>, <<"<">>,
     <<"<", "=">>, <<"+">>}

(* Lox() and the call of run(source) *)
InitSource(text) ==
    /\ source = text
    /\ start = 0
    /\ current = 0
    /\ line = 1
    /\ tokens = <<>>
    /\ pcurrent = 0
    /\ statements = <<>>
    /\ pc = "scanTokens"
    /\ exc = "none"
    /\ reports = <<>>
    /\ hadErrorCls = FALSE
    /\ LoxInit

InitBinary ==
    \E a \in BinaryOperands, b \in BinaryOperands, op \in BinaryOperators :
        InitSource(<<"p", "r", "i", "n", "t", " ">> \o a \o <<" ">> \o op \o <<" ">> \o b \o <<";">>)

SpecBinary == InitBinary /\ [][NextRun]_vars

(* the operands and the operator of  print A op B;  once it is scanned *)
LeftOperand == tokens[2]

RightOperand == tokens[4]

Operator == tokens[3].type

(* the kind of value an operand token denotes *)
KindOf(token) ==
    CASE token.type = "NIL" -> "nil"
      [] token.type \in {"TRUE", "FALSE"} -> "boolean"
      [] token.type = "NUMBER" -> "number"
      [] token.type = "STRING" -> "string"
      [] token.type = "IDENTIFIER" -> "callable"

(* Lox equality of the two operands: nil equals nil only, values of        *)
(* different kinds differ, numbers, strings and booleans compare by value, *)
(* a callable equals itself                                                *)
LoxEqual ==
    /\ KindOf(LeftOperand) = KindOf(RightOperand)
    /\ LeftOperand.lexeme = RightOperand.lexeme

(* C16: a == b yields a boolean for every pair of values (nil equals nil,  *)
(* nil differs from everything else, numbers, strings and booleans compare *)
(* by value, callables by identity) and never raises; a != b yields the    *)
(* negation.                                                               *)
C16_EqualityTotal ==
    (pc = "exited" /\ Operator \in {"EQUAL_EQUAL", "BANG_EQUAL"}) =>
        /\ runtimeReports = <<>>
        /\ output = <<stringify(Bool(LoxEqual <=> (Operator = "EQUAL_EQUAL")))>>

BothOfKind(kind) == KindOf(LeftOperand) = kind /\ KindOf(RightOperand) = kind

(* C17: an arithmetic or comparison operator with an operand of the wrong  *)
(* type produces no value: -, *, /, >, >=, <, <= raise "Operands must be a *)
(* number" unless both operands are numbers, and + raises "Operands must   *)
(* be two numbers or two strings" unless both are numbers or both strings. *)
C17_OperandTypes ==
    (pc = "exited") =>
        /\ (/\ Operator \in {"MINUS", "STAR", "SLASH", "GREATER", "GREATER_EQUAL",
                               "LESS", "LESS_EQUAL"}
            /\ ~BothOfKind("number"))
              => /\ output = <<>>
                 /\ runtimeReports =
                       <<[line |-> 1, message |-> <<"Operands must be a number">>]>>
        /\ (/\ Operator = "PLUS"
            /\ ~BothOfKind("number")
            /\ ~BothOfKind("string"))
              => /\ output = <<>>
                 /\ runtimeReports =
                       <<[line |-> 1,
                          message |-> <<"Operands must be two numbers or two strings">>]>>

----------------------------------------------------------------------------
(* Lox().runFile on  var x = 0; print A op (B); print x;  where op is or    *)
(* or and, A is a literal or clock, and B assigns to x.                     *)

LogicalLefts ==
    {<<"n", "i", "l">>, <<"t", "r", "u", "e">>, <<"f", "a", "l", "s", "e">>, <<"0">>, <<"1">>,
     <<"\"", "s", "\"">>, <<"\"", "\"">>, <<"c", "l", "o", "c", "k">>}

LogicalRights ==
    {<<"x", " ", "=", " ", "x", " ", "+", " ", "1">>, <<"x", " ", "=", " ", "n", "i", "l">>, <<"x", " ", "=", " ", "f", "a", "l", "s", "e">>,
     <<"x", " ", "=", " ", "\"", "t", "\"">>}

InitShortCircuit ==
    \E a \in LogicalLefts, b \in LogicalRights, op \in {<<" ", "o", "r", " ">>, <<" ", "a", "n", "d", " ">>} :
        InitSource(<<"v", "a", "r", " ", "x", " ", "=", " ", "0", ";", " ", "p", "r", "i", "n", "t", " ">> \o a \o op \o <<"(">> \o b
                   \o <<")", ";", " ", "p", "r", "i", "n", "t", " ", "x", ";">>)

SpecShortCircuit == InitShortCircuit /\ [][NextRun]_vars

(* the left operand, the operator and the value assigned on the right, once *)
(* the source is scanned:  var x = 0 ; print A op ( x = ...                 *)
LeftToken == tokens[7]

LeftValue == IF LeftToken.type = "IDENTIFIER" THEN Clock
             ELSE IF LeftToken.type = "TRUE" THEN Bool(TRUE)
             ELSE IF LeftToken.type = "FALSE" THEN Bool(FALSE)
             ELSE LeftToken.literal

(* nil and false are falsey, every other value is truthy *)
LeftTruthy == LeftToken.type \notin {"NIL", "FALSE"}

(* the value of the right operand when it is evaluated once from x = 0 *)
RightValue == IF tokens[12].type = "IDENTIFIER" THEN Num(1, 1)
              ELSE IF tokens[12].type = "FALSE" THEN Bool(FALSE)
              ELSE tokens[12].literal

RightEvaluated == (tokens[8].type = "OR") <=> ~LeftTruthy

(* C18: a or b evaluates b if and only if a is falsey, a and b if and only  *)
(* if a is truthy; the value is the left operand unchanged when b is not    *)
(* evaluated and the value of b, evaluated exactly once, when it is.        *)
C18_ShortCircuit ==
    (pc = "exited") =>
        /\ reports = <<>>
        /\ runtimeReports = <<>>
        /\ output = IF RightEvaluated
                    THEN <<stringify(RightValue), stringify(RightValue)>>
                    ELSE <<stringify(LeftValue), <<"0">>>>

(* b was skipped and the left operand came back as it is, not as a boolean *)
C18_Witness ==
    /\ pc = "exited"
    /\ tokens[8].type = "OR"
    /\ LeftToken.type = "STRING"
    /\ output = <<<<"s">>, <<"0">>>>

(* b was evaluated once *)
C18_WitnessEvaluated ==
    /\ pc = "exited"
    /\ tokens[8].type = "AND"
    /\ LeftToken.type = "NUMBER"
    /\ output = <<<<"1">>, <<"1">>>>

----------------------------------------------------------------------------
(* Lox.run up to the resolver, on the sources made of at most MaxLines of   *)
(* these declarations and statements, one on a line.                        *)

MaxLines == 2

ReturnLines ==
    {<<"r", "e", "t", "u", "r", "n", ";">>,
     <<"r", "e", "t", "u", "r", "n", " ", "1", ";">>,
     <<"{", " ", "r", "e", "t", "u", "r", "n", ";", " ", "}">>,
     <<"f", "u", "n", " ", "f", "(", ")", " ", "{", "}">>,
     <<"f", "u", "n", " ", "f", "(", ")", " ", "{", " ", "r", "e", "t", "u", "r", "n", ";", " ", "}">>,
     <<"f", "u", "n", " ", "f", "(", ")", " ", "{", " ", "{", " ", "r", "e", "t", "u", "r", "n", ";", " ", "}", " ", "}">>,
     <<"f", "u", "n", " ", "f", "(", ")", " ", "{", " ", "r", "e", "t", "u", "r", "n", " ", "1", ";", " ", "}">>,
     <<"c", "l", "a", "s", "s", " ", "A", " ", "{", "}">>,
     <<"c", "l", "a", "s", "s", " ", "A", " ", "{", " ", "m", "(", ")", " ", "{", "}", " ", "}">>,
     <<"c", "l", "a", "s", "s", " ", "A", " ", "{", " ", "m", "(", ")", " ", "{", " ", "r", "e", "t", "u", "r", "n", ";", " ", "}", " ", "}">>}

(* the lines ls, each followed by a newline *)
RECURSIVE Lines(_)
Lines(ls) == IF ls = <<>> THEN <<>> ELSE Head(ls) \o <<"\n">> \o Lines(Tail(ls))

InitResolve == \E ls \in Strings(ReturnLines, MaxLines) : InitSource(Lines(ls))

NextResolve ==
    \/ ScanToken
    \/ ScanEOF
    \/ NewParser
    \/ ParseDeclaration
    \/ ParseReturn
    \/ RunResolver

SpecResolve == InitResolve /\ [][NextResolve]_vars

(* the braces among the tokens j..m: opening minus closing *)
Balance(j, m) ==
    Cardinality({x \in j..m : tokens[x].type = "LEFT_BRACE"})
        - Cardinality({x \in j..m : tokens[x].type = "RIGHT_BRACE"})

(* token k lies inside the body of a function or method: a brace that      *)
(* follows a parameter list is open at k                                   *)
InFunctionBody(k) ==
    \E j \in 2..(k - 1) :
        /\ tokens[j].type = "LEFT_BRACE"
        /\ tokens[j - 1].type = "RIGHT_PAREN"
        /\ \A m \in j..(k - 1) : Balance(j, m) > 0

(* the lines of the return statements outside every function body *)
TopLevelReturns ==
    {tokens[k].line : k \in {x \in 1..Len(tokens) : /\ tokens[x].type = "RETURN"
                                                    /\ ~InFunctionBody(x)}}

(* the lines for which "Can't return from top-level code." was reported *)
ReportedReturns ==
    {reports[k].line : k \in {x \in 1..Len(reports) :
                                 reports[x].message = "Can't return from top-level code."}}

(* C14: the resolver reports "Can't return from top-level code." for a      *)
(* return statement if and only if the statement is not lexically inside a  *)
(* function or method body, also after a function, method or class          *)
(* declaration, and not for a return in a block inside a function body.     *)
C14_TopLevelReturn ==
    (pc \in {"resolved", "raised"}) => ReportedReturns = TopLevelReturns

----------------------------------------------------------------------------
(* Lox().runFile on a block that declares the function show, which reads a, *)
(* calls it, declares its own a and calls it again; the a that show reads   *)
(* is a global or a variable of an enclosing block.                         *)

OuterValues == {<<"1">>, <<"\"", "g", "\"">>}

InnerValues == {<<"2">>, <<"n", "i", "l">>}

(* the parameter list and the argument list of show *)
ShowParameters == {<<<<>>, <<>>>>, <<<<"b">>, <<"3">>>>}

ShowBodies == {<<"p", "r", "i", "n", "t", " ", "a", ";">>, <<"{", " ", "p", "r", "i", "n", "t", " ", "a", ";", " ", "}">>}

ShowBlock(v, ps, body) ==
    <<"{", " ", "f", "u", "n", " ", "s", "h", "o", "w", "(">> \o ps[1] \o <<")", " ", "{", " ">> \o body \o <<" ", "}", " ", "s", "h", "o", "w", "(">> \o ps[2]
        \o <<")", ";", " ", "v", "a", "r", " ", "a", " ", "=", " ">> \o v \o <<";", " ", "s", "h", "o", "w", "(">> \o ps[2] \o <<")", ";", " ", "}">>

InitClosure ==
    \E outer \in OuterValues, inner \in InnerValues, ps \in ShowParameters,
       body \in ShowBodies :
        \/ InitSource(<<"v", "a", "r", " ", "a", " ", "=", " ">> \o outer \o <<";", " ">> \o ShowBlock(inner, ps, body))
        \/ InitSource(<<"{", " ", "v", "a", "r", " ", "a", " ", "=", " ">> \o outer \o <<";", " ">> \o ShowBlock(inner, ps, body)
                       \o <<" ", "}">>)

SpecClosure == InitClosure /\ [][NextRun]_vars

(* the value of the outer a: the first number or string of the source *)
OuterLiteral ==
    tokens[CHOOSE k \in 1..Len(tokens) :
              /\ tokens[k].type \in {"NUMBER", "STRING"}
              /\ \A j \in 1..(k - 1) : tokens[j].type \notin {"NUMBER", "STRING"}].literal

(* C15: a variable read in a function body denotes the binding visible      *)
(* where the function was declared: show, declared in a block while a is    *)
(* defined only in an outer scope, prints the outer a when called before    *)
(* and when called after the block declares its own a.                      *)
C15_ClosureBinding ==
    (pc \in {"exited", "raised"}) =>
        /\ pc = "exited"
        /\ reports = <<>>
        /\ runtimeReports = <<>>
        /\ output = <<stringify(OuterLiteral), stringify(OuterLiteral)>>

(* both calls were made around the inner declaration, with the outer a in   *)
(* an enclosing block                                                      *)
C15_Witness ==
    /\ pc = "exited"
    /\ tokens[1].type = "LEFT_BRACE"
    /\ output = <<<<"1">>, <<"1">>>>
    /\ \E e \in 1..Len(envs) :
          /\ <<"a">> \in DOMAIN envs[e].values
          /\ envs[e].values[<<"a">>] = Num(2, 1)
          /\ <<"s", "h", "o", "w">> \in DOMAIN envs[e].values

----------------------------------------------------------------------------
(* Lox().run on programs in which a method m of class B, a subclass of A,   *)
(* calls super.m(): m is a method of A, of a superclass of A, or of neither; *)
(* and on a program of two classes without methods.                         *)

SuperPrograms ==
    {<<"c", "l", "a", "s", "s", " ", "A", " ", "{", " ", "m", "(", ")", " ",
       "{", " ", "p", "r", "i", "n", "t", " ", "\"", "A", "\"", ";", " ",
       "}", " ", "}", " ", "c", "l", "a", "s", "s", " ", "B", " ", "<", " ",
       "A", " ", "{", " ", "m", "(", ")", " ", "{", " ", "s", "u", "p", "e",
       "r", ".", "m", "(", ")", ";", " ", "p", "r", "i", "n", "t", " ", "\"",
       "B", "\"", ";", " ", "}", " ", "}", " ", "B", "(", ")", ".", "m", "(",
       ")", ";">>,
     <<"c", "l", "a", "s", "s", " ", "Z", " ", "{", " ", "m", "(", ")", " ",
       "{", " ", "p", "r", "i", "n", "t", " ", "\"", "A", "\"", ";", " ",
       "}", " ", "}", " ", "c", "l", "a", "s", "s", " ", "A", " ", "<", " ",
       "Z", " ", "{", "}", " ", "c", "l", "a", "s", "s", " ", "B", " ", "<",
       " ", "A", " ", "{", " ", "m", "(", ")", " ", "{", " ", "s", "u", "p",
       "e", "r", ".", "m", "(", ")", ";", " ", "p", "r", "i", "n", "t", " ",
       "\"", "B", "\"", ";", " ", "}", " ", "}", " ", "B", "(", ")", ".",
       "m", "(", ")", ";">>,
     <<"c", "l", "a", "s", "s", " ", "A", " ", "{", " ", "k", "(", ")", " ",
       "{", " ", "p", "r", "i", "n", "t", " ", "\"", "A", "\"", ";", " ",
       "}", " ", "}", " ", "c", "l", "a", "s", "s", " ", "B", " ", "<", " ",
       "A", " ", "{", " ", "m", "(", ")", " ", "{", " ", "s", "u", "p", "e",
       "r", ".", "m", "(", ")", ";", " ", "p", "r", "i", "n", "t", " ", "\"",
       "B", "\"", ";", " ", "}", " ", "}", " ", "B", "(", ")", ".", "m", "(",
       ")", ";">>,
     <<"c", "l", "a", "s", "s", " ", "A", " ", "{", "}", " ", "c", "l", "a",
       "s", "s", " ", "B", " ", "<", " ", "A", " ", "{", " ", "m", "(", ")",
       " ", "{", " ", "s", "u", "p", "e", "r", ".", "m", "(", ")", ";", " ",
       "p", "r", "i", "n", "t", " ", "\"", "B", "\"", ";", " ", "}", " ",
       "}", " ", "B", "(", ")", ".", "m", "(", ")", ";">>,
     <<"c", "l", "a", "s", "s", " ", "A", " ", "{", "}", " ", "c", "l", "a",
       "s", "s", " ", "B", " ", "<", " ", "A", " ", "{", "}", " ", "B", "(",
       ")", ".", "m", "(", ")", ";">>}

InitSuper == \E text \in SuperPrograms : InitSource(text)

(* Lox.run: scanner, parser, resolver, interpreter *)
NextLoxRun ==
    \/ ScanToken
    \/ ScanEOF
    \/ NewParser
    \/ ParseDeclaration
    \/ ParseReturn
    \/ RunResolver
    \/ RunInterpreter

SpecSuper == InitSuper /\ [][NextLoxRun]_vars

UsesSuper == \E k \in 1..Len(tokens) : tokens[k].type = "SUPER"

(* some class other than B declares m, the method that prints A *)
SuperclassHasM ==
    \E k \in 1..(Len(tokens) - 5) :
        /\ tokens[k].type = "IDENTIFIER"
        /\ tokens[k].lexeme = <<"m">>
        /\ tokens[k + 4].type = "PRINT"
        /\ tokens[k + 5].literal = Str(<<"A">>)

(* C20: super.m in a method of B, declared class B < A, is the method m     *)
(* found from A up its superclass chain, bound to this: the programs print  *)
(* A and then B; when the chain of A has no m the call raises "Undefined    *)
(* property 'm'."                                                           *)
C20_SuperMethod ==
    (pc \in {"returned", "raised"} /\ UsesSuper) =>
        /\ pc = "returned"
        /\ reports = <<>>
        /\ IF SuperclassHasM
           THEN /\ output = <<<<"A">>, <<"B">>>>
                /\ runtimeReports = <<>>
           ELSE /\ output = <<>>
                /\ runtimeReports =
                      <<[line |-> 1, message |-> <<"U", "n", "d", "e", "f", "i", "n", "e", "d", " ", "p", "r", "o", "p", "e", "r", "t", "y", " ", "'", "m", "'", ".">>]>>

----------------------------------------------------------------------------
(* A session on one instance i of class B < A, where A declares the method  *)
(* m and B the method n: at most MaxCalls statements  i.name = value;  and  *)
(* print i.name;  are interpreted one after the other. The instance and its *)
(* classes are built as LoxClass(name, superclass, methods) and             *)
(* LoxInstance(class) build them.                                           *)

MaxCalls == 3

(* the tokens the statements refer to: i, m, n, x *)
InstanceTokens ==
    <<Tk("IDENTIFIER", <<"i">>), Tk("IDENTIFIER", <<"m">>), Tk("IDENTIFIER", <<"n">>),
      Tk("IDENTIFIER", <<"x">>), EOFToken(1)>>

(* a method without parameters and with an empty body, declared at top level *)
Method(name) == LoxFunction(Function(name, <<>>, <<>>), 1, FALSE)

ClassA == LoxClass(<<"A">>, None, [name \in {<<"m">>} |-> Method(1)])

ClassB == LoxClass(<<"B">>, ClassA, [name \in {<<"n">>} |-> Method(2)])

(* i.name = value;  and  print i.name;  for the names m, n and x *)
InstanceStatements ==
    {Expression(Set(Variable(0), name, Literal(Num(v, 1)))) : name \in 1..3, v \in 1..2}
        \cup {PrintStmt(Get(Variable(0), name)) : name \in 1..3}

InitInstance ==
    /\ source = <<>>
    /\ start = 0
    /\ current = 0
    /\ line = 1
    /\ tokens = InstanceTokens
    /\ pcurrent = 0
    /\ statements \in UNION {[1..k -> InstanceStatements] : k \in 1..MaxCalls}
    /\ pc = "session"
    /\ exc = "none"
    /\ reports = <<>>
    /\ hadErrorCls = FALSE
    /\ hadErrorSelf = FALSE
    /\ hadRuntimeErrorCls = FALSE
    /\ runtimeReports = <<>>
    /\ exitCode = <<>>
    /\ locals = <<>>
    /\ resolver = NewResolver
    /\ envs = <<[Environment(0) EXCEPT
                    !.values = Put(Put(@, <<"c", "l", "o", "c", "k">>, Clock),
                                   <<"i">>, InstanceRef(1, ClassB))]>>
    /\ instances = <<LoxInstance(ClassB)>>
    /\ output = <<>>
    /\ interpretCalls = 0

(* interpreter.interpret on the next statement of the session *)
InstanceCall ==
    /\ pc = "session"
    /\ interpretCalls < Len(statements)
    /\ LET interpreted(i) ==
               /\ envs' = i.envs
               /\ instances' = i.instances
               /\ output' = i.output
               /\ runtimeReports' = i.runtimeReports
               /\ hadRuntimeErrorCls' = i.hadRuntimeError
               /\ exc' = i.exc
       IN interpreted(interpret(InterpreterState, <<statements[interpretCalls + 1]>>))
    /\ interpretCalls' = interpretCalls + 1
    /\ UNCHANGED <<scanVars, tokens, parseVars, hostVars, hadErrorSelf, exitCode, locals, resolver, pc>>

SpecInstance == InitInstance /\ [][InstanceCall]_vars

(* the statement that the next call interprets, the name it is about, and   *)
(* the fields of i                                                          *)
NextStatement == statements[interpretCalls + 1]

NextName == Tok(NextStatement.expression.name).lexeme

Fields == instances[1].fields

(* C19: set(n, v) never fails and makes n a field of value v, leaving the   *)
(* other fields as they are; get(n) returns the value of the field n, which *)
(* is the value last set, also when a class of the chain declares a method  *)
(* n; without a field it returns the method; with neither it raises         *)
(* "Undefined property 'n'."; get leaves the fields unchanged.              *)
C19_FieldsShadowMethods ==
    [][(pc = "session") =>
        /\ exc' = "none"
        /\ IF NextStatement.t = "Expression"
           THEN /\ Len(instances') = 1
                /\ DOMAIN instances'[1].fields = DOMAIN Fields \cup {NextName}
                /\ instances'[1].fields[NextName] = NextStatement.expression.value.value
                /\ \A name \in DOMAIN Fields \ {NextName} :
                      instances'[1].fields[name] = Fields[name]
                /\ output' = output
                /\ runtimeReports' = runtimeReports
           ELSE /\ instances' = instances
                /\ IF NextName \in DOMAIN Fields
                   THEN /\ output' = Append(output, stringify(Fields[NextName]))
                        /\ runtimeReports' = runtimeReports
                   ELSE IF NextName \in {<<"m">>, <<"n">>}
                   THEN /\ output' = Append(output, <<"<", "f", "n", " ">> \o NextName
                                                      \o <<" ", ">">>)
                        /\ runtimeReports' = runtimeReports
                   ELSE /\ output' = output
                        /\ runtimeReports' =
                              Append(runtimeReports,
                                     [line |-> 1,
                                      message |-> <<"U", "n", "d", "e", "f", "i", "n", "e", "d", " ", "p", "r", "o", "p", "e", "r", "t", "y", " ", "'">> \o NextName
                                                      \o <<"'", ".">>])]_vars

(* the field m was set and then read, while the superclass A declares the   *)
(* method m: the value came back                                           *)
C19_Witness ==
    /\ pc = "session"
    /\ interpretCalls = 2
    /\ statements[1] = Expression(Set(Variable(0), 1, Literal(Num(2, 1))))
    /\ statements[2] = PrintStmt(Get(Variable(0), 1))
    /\ output = <<<<"2">>>>

(* a name that is neither a field nor a method was read *)
C19_WitnessUndefined ==
    /\ pc = "session"
    /\ interpretCalls = 1
    /\ statements[1] = PrintStmt(Get(Variable(0), 3))
    /\ Len(runtimeReports) = 1

----------------------------------------------------------------------------
(* Lox().run on programs that declare a class and call it. Each program is  *)
(* listed with the lines it is to print.                                    *)

(* programs that invoke init: through the class call and as instance.init() *)
InitializerPrograms ==
    {[text |->
        <<"c", "l", "a", "s", "s", " ", "P", " ", "{", " ", "i", "n", "i",
          "t", "(", ")", " ", "{", " ", "r", "e", "t", "u", "r", "n", ";",
          " ", "}", " ", "}", " ", "p", "r", "i", "n", "t", " ", "P", "(",
          ")", ".", "i", "n", "i", "t", "(", ")", ";">>,
      prints |-> <<<<"<", "P", " ", "i", "n", "s", "t", "a", "n", "c", "e", ">">>>>],
     [text |->
        <<"c", "l", "a", "s", "s", " ", "P", " ", "{", " ", "i", "n", "i",
          "t", "(", ")", " ", "{", " ", "}", " ", "}", " ", "p", "r", "i",
          "n", "t", " ", "P", "(", ")", ".", "i", "n", "i", "t", "(", ")", ";">>,
      prints |-> <<<<"<", "P", " ", "i", "n", "s", "t", "a", "n", "c", "e", ">">>>>],
     [text |->
        <<"c", "l", "a", "s", "s", " ", "P", " ", "{", " ", "i", "n", "i",
          "t", "(", ")", " ", "{", " ", "r", "e", "t", "u", "r", "n", ";",
          " ", "}", " ", "}", " ", "p", "r", "i", "n", "t", " ", "P", "(",
          ")", ";">>,
      prints |-> <<<<"<", "P", " ", "i", "n", "s", "t", "a", "n", "c", "e", ">">>>>],
     [text |->
        <<"c", "l", "a", "s", "s", " ", "P", " ", "{", " ", "i", "n", "i",
          "t", "(", ")", " ", "{", " ", "}", " ", "}", " ", "v", "a", "r",
          " ", "p", " ", "=", " ", "P", "(", ")", ";", " ", "p", "r", "i",
          "n", "t", " ", "p", ".", "i", "n", "i", "t", "(", ")", ";">>,
      prints |-> <<<<"<", "P", " ", "i", "n", "s", "t", "a", "n", "c", "e", ">">>>>]}

(* programs that call a class: with init, without, with an inherited init,  *)
(* and twice                                                                *)
ClassCallPrograms ==
    {[text |->
        <<"c", "l", "a", "s", "s", " ", "P", " ", "{", " ", "i", "n", "i",
          "t", "(", "n", ")", " ", "{", " ", "t", "h", "i", "s", ".", "n",
          " ", "=", " ", "n", ";", " ", "}", " ", "}", " ", "p", "r", "i",
          "n", "t", " ", "P", "(", "7", ")", ".", "n", ";">>,
      prints |-> <<<<"7">>>>],
     [text |->
        <<"c", "l", "a", "s", "s", " ", "P", " ", "{", " ", "}", " ", "p",
          "r", "i", "n", "t", " ", "P", "(", ")", ";">>,
      prints |-> <<<<"<", "P", " ", "i", "n", "s", "t", "a", "n", "c", "e", ">">>>>],
     [text |->
        <<"c", "l", "a", "s", "s", " ", "A", " ", "{", " ", "i", "n", "i",
          "t", "(", "n", ")", " ", "{", " ", "t", "h", "i", "s", ".", "n",
          " ", "=", " ", "n", ";", " ", "}", " ", "}", " ", "c", "l", "a",
          "s", "s", " ", "P", " ", "<", " ", "A", " ", "{", " ", "}", " ",
          "p", "r", "i", "n", "t", " ", "P", "(", "7", ")", ".", "n", ";">>,
      prints |-> <<<<"7">>>>],
     [text |->
        <<"c", "l", "a", "s", "s", " ", "P", " ", "{", " ", "i", "n", "i",
          "t", "(", "n", ")", " ", "{", " ", "t", "h", "i", "s", ".", "n",
          " ", "=", " ", "n", ";", " ", "}", " ", "}", " ", "v", "a", "r",
          " ", "a", " ", "=", " ", "P", "(", "1", ")", ";", " ", "v", "a",
          "r", " ", "b", " ", "=", " ", "P", "(", "2", ")", ";", " ", "p",
          "r", "i", "n", "t", " ", "a", ".", "n", ";", " ", "p", "r", "i",
          "n", "t", " ", "b", ".", "n", ";">>,
      prints |-> <<<<"1">>, <<"2">>>>]}

InitClass == \E p \in InitializerPrograms \cup ClassCallPrograms : InitSource(p.text)

SpecClass == InitClass /\ [][NextLoxRun]_vars

(* C21: invoking init, through the class call or as instance.init(), with a *)
(* body that finishes or that executes a bare return, gives the instance:   *)
(* each program prints <P instance>.                                        *)
C21_InitializerReturnsInstance ==
    \A p \in InitializerPrograms :
        (source = p.text /\ pc \in {"returned", "raised"}) =>
            /\ pc = "returned"
            /\ reports = <<>>
            /\ runtimeReports = <<>>
            /\ output = p.prints

(* C22: calling a declared class with arity(init) arguments creates a new   *)
(* instance, runs init once on it with the arguments bound to the           *)
(* parameters, and returns it: each program prints the lines listed.        *)
C22_ClassCall ==
    \A p \in ClassCallPrograms :
        (source = p.text /\ pc \in {"returned", "raised"}) =>
            /\ pc = "returned"
            /\ reports = <<>>
            /\ runtimeReports = <<>>
            /\ output = p.prints

----------------------------------------------------------------------------
(* Lox().run on the sources made of at most MaxReturnLines of these         *)
(* statements, one on a line: returns at top level and in function bodies,  *)
(* and calls of the functions.                                              *)

MaxReturnLines == 3

ReturnStatements ==
    {<<"r", "e", "t", "u", "r", "n", ";">>,
     <<"{", " ", "r", "e", "t", "u", "r", "n", ";", " ", "}">>,
     <<"i", "f", " ", "(", "t", "r", "u", "e", ")", " ", "r", "e", "t", "u",
       "r", "n", ";">>,
     <<"f", "u", "n", " ", "f", "(", ")", " ", "{", " ", "r", "e", "t", "u",
       "r", "n", ";", " ", "p", "r", "i", "n", "t", " ", "2", ";", " ", "}">>,
     <<"f", "u", "n", " ", "f", "(", ")", " ", "{", " ", "{", " ", "r", "e",
       "t", "u", "r", "n", ";", " ", "}", " ", "}">>,
     <<"f", "(", ")", ";">>,
     <<"p", "r", "i", "n", "t", " ", "f", "(", ")", ";">>,
     <<"p", "r", "i", "n", "t", " ", "1", ";">>}

InitReturn == \E ls \in Strings(ReturnStatements, MaxReturnLines) : InitSource(Lines(ls))

SpecReturn == InitReturn /\ [][NextLoxRun]_vars

(* C23: the carrier raised by a return statement is caught by the frame of  *)
(* an enclosing function call: it never leaves Interpreter.interpret or     *)
(* Lox.run.                                                                 *)
C23_ReturnCaught == exc # "Return"

----------------------------------------------------------------------------
(* Lox().runFile on the files made of at most MaxRuntimeLines of these      *)
(* statements, one on a line: statements that print or define, and          *)
(* statements that raise a runtime error always (a unary minus on a string, *)
(* a call of a number, a call with a wrong argument count, a minus on nil   *)
(* inside a block) or when a is not defined.                                *)

MaxRuntimeLines == 3

RuntimeStatements ==
    {<<"p", "r", "i", "n", "t", " ", "1", ";">>,
     <<"v", "a", "r", " ", "a", " ", "=", " ", "2", ";">>,
     <<"p", "r", "i", "n", "t", " ", "a", ";">>,
     <<"a", " ", "=", " ", "3", ";">>,
     <<"p", "r", "i", "n", "t", " ", "-", "\"", "s", "\"", ";">>,
     <<"1", "(", ")", ";">>,
     <<"c", "l", "o", "c", "k", "(", "1", ")", ";">>,
     <<"{", " ", "p", "r", "i", "n", "t", " ", "4", ";", " ", "p", "r", "i",
       "n", "t", " ", "-", "n", "i", "l", ";", " ", "p", "r", "i", "n", "t",
       " ", "5", ";", " ", "}">>}

InitRuntime == \E ls \in Strings(RuntimeStatements, MaxRuntimeLines) : InitSource(Lines(ls))

SpecRuntime == InitRuntime /\ [][NextRun]_vars

(* the interpreter after the first n statements of the list *)
AfterStatements(n) == executeStatements(InterpreterState, SubSeq(statements, 1, n))

(* the statement whose execution raises the first runtime error; 0 if none *)
FirstRaising ==
    IF \E k \in 1..Len(statements) : AfterStatements(k).exc = "LoxRuntimeError"
    THEN CHOOSE k \in 1..Len(statements) :
             /\ AfterStatements(k).exc = "LoxRuntimeError"
             /\ \A j \in 1..(k - 1) : AfterStatements(j).exc = "none"
    ELSE 0

(* C24: when the k-th statement of the list raises a runtime error, the     *)
(* call of interpret leaves the state that statements 1..k-1 and the part   *)
(* of statement k before the error have made (printed lines, globals), and  *)
(* no statement after the k-th adds to it; the error is reported once, with *)
(* its message and the line of its token; hadRuntimeError becomes true; and *)
(* once true, hadRuntimeError stays true.                                   *)
C24_RuntimeErrorAborts ==
    [][/\ hadRuntimeErrorCls => hadRuntimeErrorCls'
       /\ (pc = "resolved" /\ FirstRaising > 0) =>
             LET before == AfterStatements(FirstRaising - 1)
                 raised == execute(before, statements[FirstRaising])
             IN /\ pc' = "returned"
                /\ exc' = "none"
                /\ interpretCalls' = interpretCalls + 1
                /\ output' = raised.output
                /\ \E n \in 0..Len(output') : SubSeq(output', 1, n) = before.output
                /\ envs' = raised.envs
                /\ \A name \in DOMAIN before.envs[1].values :
                      name \in DOMAIN envs'[1].values
                /\ runtimeReports' =
                      Append(runtimeReports, [line |-> Tok(raised.err.token).line,
                                              message |-> raised.err.message])
                /\ hadRuntimeErrorCls']_vars

(* print 1; on line 1, the failing print on line 2, print 1; on line 3:     *)
(* one line was printed and one error reported, for line 2                  *)
C24_Witness ==
    /\ pc = "exited"
    /\ Len(statements) = 3
    /\ statements[2].t = "Print"
    /\ statements[2].expression.t = "Unary"
    /\ output = <<<<"1">>>>
    /\ Len(runtimeReports) = 1
    /\ runtimeReports[1].line = 2
    /\ hadRuntimeErrorCls
    /\ exitCode = <<70>>

(* the error was raised inside a block, after the block had printed *)
C24_WitnessBlock ==
    /\ pc = "exited"
    /\ Len(statements) = 2
    /\ statements[1].t = "Var"
    /\ statements[2].t = "Block"
    /\ output = <<<<"4">>>>
    /\ <<"a">> \in DOMAIN envs[1].values
    /\ Len(runtimeReports) = 1

----------------------------------------------------------------------------
(* Lox().run on the sources made of at most MaxScopeLines of these          *)
(* declarations and statements, one on a line: globals, nested blocks,      *)
(* parameters, a closure over a block variable, a recursive local function, *)
(* a loop, and a variable read in its own initialiser (a static error).     *)

MaxScopeLines == 2

ScopeStatements ==
    {<<"v", "a", "r", " ", "a", " ", "=", " ", "1", ";">>,
     <<"p", "r", "i", "n", "t", " ", "a", ";">>,
     <<"{", " ", "v", "a", "r", " ", "a", " ", "=", " ", "2", ";", " ", "p",
       "r", "i", "n", "t", " ", "a", ";", " ", "a", " ", "=", " ", "3", ";",
       " ", "{", " ", "p", "r", "i", "n", "t", " ", "a", ";", " ", "a", " ",
       "=", " ", "4", ";", " ", "}", " ", "p", "r", "i", "n", "t", " ", "a",
       ";", " ", "}">>,
     <<"f", "u", "n", " ", "f", "(", "x", ")", " ", "{", " ", "p", "r", "i",
       "n", "t", " ", "x", ";", " ", "x", " ", "=", " ", "5", ";", " ", "{",
       " ", "v", "a", "r", " ", "y", " ", "=", " ", "x", ";", " ", "p", "r",
       "i", "n", "t", " ", "y", ";", " ", "}", " ", "p", "r", "i", "n", "t",
       " ", "a", ";", " ", "}">>,
     <<"f", "(", "7", ")", ";">>,
     <<"{", " ", "v", "a", "r", " ", "b", " ", "=", " ", "1", ";", " ", "f",
       "u", "n", " ", "g", "(", ")", " ", "{", " ", "{", " ", "p", "r", "i",
       "n", "t", " ", "b", ";", " ", "}", " ", "b", " ", "=", " ", "b", " ",
       "+", " ", "1", ";", " ", "}", " ", "g", "(", ")", ";", " ", "v", "a",
       "r", " ", "c", " ", "=", " ", "0", ";", " ", "g", "(", ")", ";", " ",
       "}">>,
     <<"{", " ", "f", "u", "n", " ", "h", "(", "n", ")", " ", "{", " ", "i",
       "f", " ", "(", "n", " ", ">", " ", "0", ")", " ", "h", "(", "n", " ",
       "-", " ", "1", ")", ";", " ", "p", "r", "i", "n", "t", " ", "n", ";",
       " ", "}", " ", "h", "(", "2", ")", ";", " ", "}">>,
     <<"{", " ", "v", "a", "r", " ", "i", " ", "=", " ", "0", ";", " ", "w",
       "h", "i", "l", "e", " ", "(", "i", " ", "<", " ", "2", ")", " ", "{",
       " ", "p", "r", "i", "n", "t", " ", "i", ";", " ", "i", " ", "=", " ",
       "i", " ", "+", " ", "1", ";", " ", "}", " ", "}">>,
     <<"{", " ", "v", "a", "r", " ", "d", " ", "=", " ", "d", ";", " ", "}">>}

InitScope == \E ls \in Strings(ScopeStatements, MaxScopeLines) : InitSource(Lines(ls))

SpecScope == InitScope /\ [][NextLoxRun]_vars

(* the interpreter as the call of interpret on the resolved statements      *)
(* leaves it                                                                *)
Interpreted == interpret(InterpreterState, statements)

----------------------------------------------------------------------------
(* Parser(tokens).parse() on the statements  left = right ;  and            *)
(* print left = right ;  where left is parsed at logic_or level (a          *)
(* variable, a property, and shapes that are no assignment target) and      *)
(* right is an expression, an assignment, an assignment to a bad target, or *)
(* missing.                                                                 *)

AssignLefts ==
    {<<Tk("IDENTIFIER", <<"a">>)>>,
     <<Tk("IDENTIFIER", <<"a">>), Tk("DOT", <<".">>), Tk("IDENTIFIER", <<"b">>)>>,
     <<NumberToken("1")>>,
     <<Tk("MINUS", <<"-">>), Tk("IDENTIFIER", <<"a">>)>>,
     <<Tk("IDENTIFIER", <<"a">>), Tk("OR", <<"o", "r">>), Tk("IDENTIFIER", <<"b">>)>>,
     <<Tk("IDENTIFIER", <<"a">>), Tk("EQUAL_EQUAL", <<"=", "=">>), NumberToken("1")>>,
     <<Tk("IDENTIFIER", <<"a">>), Tk("LEFT_PAREN", <<"(">>), Tk("RIGHT_PAREN", <<")">>)>>,
     <<Tk("LEFT_PAREN", <<"(">>), Tk("IDENTIFIER", <<"a">>), Tk("RIGHT_PAREN", <<")">>)>>,
     <<Tk("THIS", <<"t", "h", "i", "s">>)>>}

AssignRights ==
    {<<NumberToken("2")>>,
     <<Tk("IDENTIFIER", <<"b">>)>>,
     <<Tk("MINUS", <<"-">>), NumberToken("2")>>,
     <<Tk("IDENTIFIER", <<"b">>), Tk("EQUAL", <<"=">>), NumberToken("2")>>,
     <<NumberToken("3"), Tk("EQUAL", <<"=">>), NumberToken("2")>>,
     <<>>}

InitAssign ==
    \E prefix \in Prefixes : \E left \in AssignLefts, right \in AssignRights :
        InitParser(prefix \o left \o <<Tk("EQUAL", <<"=">>)>> \o right
                   \o <<Tk("SEMICOLON", <<";">>), EOFToken(1)>>)

SpecAssign == InitAssign /\ [][NextParse]_vars

(* the left side as logic_or parses it (it ends before the =), the right    *)
(* side as assignment parses it from the token after the =, and the whole   *)
(* as assignment parses it                                                  *)
LeftSide == logic_or([ParserState EXCEPT !.cur = ExprStart])

RightSide == assignment([ParserState EXCEPT !.cur = LeftSide.cur + 1])

WholeAssignment == assignment([ParserState EXCEPT !.cur = ExprStart])

InvalidTarget ==
    [line |-> 1, where |-> <<"at", "=">>, message |-> "Invalid assignment target."]

----------------------------------------------------------------------------
(* Resolver.resolveExpression on one expression, called on a resolver whose *)
(* scope stack holds at most MaxScopes scopes, each declaring some of the   *)
(* names a, b, this and super, inside or outside a class.                   *)

MaxScopes == 3

(* the tokens the expressions refer to: a, b, this, super, 1, - *)
LocalTokens ==
    <<Tk("IDENTIFIER", <<"a">>), Tk("IDENTIFIER", <<"b">>),
      Tk("THIS", <<"t", "h", "i", "s">>), Tk("SUPER", <<"s", "u", "p", "e", "r">>),
      NumberToken("1"), Tk("MINUS", <<"-">>), EOFToken(1)>>

(* a scope: the names declared in it, with whether they are defined *)
LocalScopes ==
    {<<>>,
     Put(<<>>, <<"a">>, TRUE),
     Put(<<>>, <<"a">>, FALSE),
     Put(<<>>, <<"b">>, TRUE),
     Put(Put(<<>>, <<"a">>, TRUE), <<"b">>, TRUE),
     Put(<<>>, <<"t", "h", "i", "s">>, TRUE),
     Put(<<>>, <<"s", "u", "p", "e", "r">>, TRUE)}

LocalExpressions ==
    {Variable(0), Variable(1), This(2), Super(3, 0), Literal(Num(1, 1)),
     Assign(0, Literal(Num(1, 1))), Assign(1, Variable(0)), Assign(0, Variable(0)),
     Unary(5, Variable(0)), Binary(Variable(0), 5, Variable(1)),
     Logical(This(2), 5, Variable(1)), Grouping(Variable(1)),
     Call(Variable(0), 5, <<Variable(1), This(2)>>), Get(Variable(0), 1),
     Set(Variable(0), 1, Variable(1)), Get(Super(3, 0), 1)}

InitLocal ==
    /\ source = <<>>
    /\ start = 0
    /\ current = 0
    /\ line = 1
    /\ tokens = LocalTokens
    /\ pcurrent = 0
    /\ pc = "resolveExpression"
    /\ exc = "none"
    /\ reports = <<>>
    /\ hadErrorCls = FALSE
    /\ hadErrorSelf = FALSE
    /\ hadRuntimeErrorCls = FALSE
    /\ runtimeReports = <<>>
    /\ exitCode = <<>>
    /\ locals = <<>>
    /\ envs = <<[Environment(0) EXCEPT !.values = Put(@, <<"c", "l", "o", "c", "k">>, Clock)]>>
    /\ instances = <<>>
    /\ output = <<>>
    /\ interpretCalls = 0
    /\ \E expr \in LocalExpressions : statements = <<Expression(expr)>>
    /\ \E scopes \in Strings(LocalScopes, MaxScopes) :
          \E class \in ClassType :
             resolver = [scopes |-> scopes, currentFunction |-> "NONE", currentClass |-> class]

(* resolver.resolveExpression(expr) *)
ResolveExpressionCall ==
    /\ pc = "resolveExpression"
    /\ pc' = "resolved"
    /\ LET resolved(r) ==
               /\ locals' = r.locals
               /\ reports' = r.reports
               /\ hadErrorCls' = r.hadError
               /\ exc' = r.exc
               /\ resolver' = [scopes |-> r.scopes, currentFunction |-> r.currentFunction,
                               currentClass |-> r.currentClass]
       IN resolved(resolveExpression(
              [ResolverState EXCEPT !.scopes = resolver.scopes,
                                    !.currentFunction = resolver.currentFunction,
                                    !.currentClass = resolver.currentClass],
              statements[1].expression))
    /\ UNCHANGED <<scanVars, tokens, parseVars, loxVars, envs, instances, output,
                   interpretCalls>>

SpecLocal == InitLocal /\ [][ResolveExpressionCall]_vars

(* the expression of the call *)
LocalExpression == statements[1].expression

(* the Variable, Assign, This and Super nodes in an expression *)
RECURSIVE References(_)
References(expr) ==
    CASE expr.t \in {"Variable", "This", "Super"} -> {expr}
      [] expr.t = "Assign" -> {expr} \cup References(expr.value)
      [] expr.t \in {"Binary", "Logical"} -> References(expr.left) \cup References(expr.right)
      [] expr.t = "Call" ->
            References(expr.callee)
                \cup UNION {References(expr.arguments[k]) : k \in 1..Len(expr.arguments)}
      [] expr.t = "Get" -> References(expr.object)
      [] expr.t = "Set" -> References(expr.value) \cup References(expr.object)
      [] expr.t = "Grouping" -> References(expr.expression)
      [] expr.t = "Unary" -> References(expr.right)
      [] OTHER -> {}

(* the name a reference is resolved by *)
ReferenceName(x) ==
    IF x.t \in {"Variable", "Assign"} THEN Tok(x.name).lexeme ELSE Tok(x.keyword).lexeme

(* the scopes of the stack, counted from the bottom, that contain a name *)
ScopesWith(name) == {k \in 1..Len(resolver.scopes) : name \in DOMAIN resolver.scopes[k]}

(* the distance from the top of the stack to the innermost scope with name *)
InnermostDistance(name) ==
    Len(resolver.scopes) - (CHOOSE k \in ScopesWith(name) : \A j \in ScopesWith(name) : j <= k)

(* resolveLocal is called for the reference: visitThisExpr returns before   *)
(* the call outside a class                                                 *)
ResolveLocalCalled(x) == x.t = "This" => resolver.currentClass # "NONE"

(* C27: resolveLocal(expr, name) records for expr the distance from the top *)
(* of the scope stack (0 for the top) to the innermost scope that contains  *)
(* name, one entry, and nothing when no scope contains name; the table      *)
(* holds entries only for Variable, Assign, This and Super expressions, and *)
(* every depth recorded is in 0 .. height of the stack - 1.                 *)
C27_ResolveLocal ==
    [][(pc = "resolveExpression") =>
          /\ \A x \in DOMAIN locals' :
                /\ x.t \in {"Variable", "Assign", "This", "Super"}
                /\ x \in References(LocalExpression)
                /\ locals'[x] \in 0..(Len(resolver.scopes) - 1)
          /\ \A x \in References(LocalExpression) :
                IF ResolveLocalCalled(x) /\ ScopesWith(ReferenceName(x)) # {}
                THEN /\ x \in DOMAIN locals'
                     /\ locals'[x] = InnermostDistance(ReferenceName(x))
                ELSE x \notin DOMAIN locals'
          /\ resolver' = resolver]_vars

(* a is declared in the two outer scopes of three and read from the top:    *)
(* the distance recorded is 1, the nearer of the two                        *)
C27_Witness ==
    /\ pc = "resolved"
    /\ LocalExpression = Variable(0)
    /\ Len(resolver.scopes) = 3
    /\ ScopesWith(<<"a">>) = {1, 2}
    /\ DOMAIN locals = {Variable(0)}
    /\ locals[Variable(0)] = 1

(* b is in no scope: the assignment to b left no entry, the read of a did   *)
C27_WitnessNoEntry ==
    /\ pc = "resolved"
    /\ LocalExpression = Assign(1, Variable(0))
    /\ ScopesWith(<<"b">>) = {}
    /\ DOMAIN locals = {Variable(0)}

----------------------------------------------------------------------------
(* Lox().run on a prologue that defines the globals a and b and the         *)
(* function f of two parameters, followed by one call: the callee is f,     *)
(* clock, the number a, a string, or the undefined g, and the arguments are *)
(* assignments to a and b and the undefined u. Each program is listed with  *)
(* what the order callee, arguments left to right, checks, call gives: the  *)
(* final a and b, the number of environments, the lines printed and the     *)
(* messages of the runtime errors.                                          *)

CallPrograms ==
    {[text |->
        <<"v", "a", "r", " ", "a", " ", "=", " ", "0", ";", " ", "v", "a",
          "r", " ", "b", " ", "=", " ", "0", ";", " ", "f", "u", "n", " ",
          "f", "(", "x", ",", " ", "y", ")", " ", "{", " ", "p", "r", "i",
          "n", "t", " ", "x", ";", " ", "p", "r", "i", "n", "t", " ", "y",
          ";", " ", "}", "\n", "f", "(", ")", ";", "\n">>,
      a |-> 0, b |-> 0, frames |-> 1,
      prints |-> <<>>,
      errors |-> <<<<"E", "x", "p", "e", "c", "t", "e", "d", " ", "2", " ",
                        "a", "r", "g", "u", "m", "e", "n", "t", "s", ",", " ",
                        "b", "u", "t", " ", "g", "o", "t", " ", "0", ".">>>>],
     [text |->
        <<"v", "a", "r", " ", "a", " ", "=", " ", "0", ";", " ", "v", "a",
          "r", " ", "b", " ", "=", " ", "0", ";", " ", "f", "u", "n", " ",
          "f", "(", "x", ",", " ", "y", ")", " ", "{", " ", "p", "r", "i",
          "n", "t", " ", "x", ";", " ", "p", "r", "i", "n", "t", " ", "y",
          ";", " ", "}", "\n", "f", "(", "a", " ", "=", " ", "1", ")", ";",
          "\n">>,
      a |-> 1, b |-> 0, frames |-> 1,
      prints |-> <<>>,
      errors |-> <<<<"E", "x", "p", "e", "c", "t", "e", "d", " ", "2", " ",
                        "a", "r", "g", "u", "m", "e", "n", "t", "s", ",", " ",
                        "b", "u", "t", " ", "g", "o", "t", " ", "1", ".">>>>],
     [text |->
        <<"v", "a", "r", " ", "a", " ", "=", " ", "0", ";", " ", "v", "a",
          "r", " ", "b", " ", "=", " ", "0", ";", " ", "f", "u", "n", " ",
          "f", "(", "x", ",", " ", "y", ")", " ", "{", " ", "p", "r", "i",
          "n", "t", " ", "x", ";", " ", "p", "r", "i", "n", "t", " ", "y",
          ";", " ", "}", "\n", "f", "(", "a", " ", "=", " ", "a", " ", "+",
          " ", "1", ",", " ", "b", " ", "=", " ", "a", " ", "+", " ", "1",
          ")", ";", "\n">>,
      a |-> 1, b |-> 2, frames |-> 2,
      prints |-> <<<<"1">>, <<"2">>>>,
      errors |-> <<>>],
     [text |->
        <<"v", "a", "r", " ", "a", " ", "=", " ", "0", ";", " ", "v", "a",
          "r", " ", "b", " ", "=", " ", "0", ";", " ", "f", "u", "n", " ",
          "f", "(", "x", ",", " ", "y", ")", " ", "{", " ", "p", "r", "i",
          "n", "t", " ", "x", ";", " ", "p", "r", "i", "n", "t", " ", "y",
          ";", " ", "}", "\n", "f", "(", "a", " ", "=", " ", "1", ",", " ",
          "a", " ", "=", " ", "2", ")", ";", "\n">>,
      a |-> 2, b |-> 0, frames |-> 2,
      prints |-> <<<<"1">>, <<"2">>>>,
      errors |-> <<>>],
     [text |->
        <<"v", "a", "r", " ", "a", " ", "=", " ", "0", ";", " ", "v", "a",
          "r", " ", "b", " ", "=", " ", "0", ";", " ", "f", "u", "n", " ",
          "f", "(", "x", ",", " ", "y", ")", " ", "{", " ", "p", "r", "i",
          "n", "t", " ", "x", ";", " ", "p", "r", "i", "n", "t", " ", "y",
          ";", " ", "}", "\n", "f", "(", "a", " ", "=", " ", "1", ",", " ",
          "u", ",", " ", "b", " ", "=", " ", "2", ")", ";", "\n">>,
      a |-> 1, b |-> 0, frames |-> 1,
      prints |-> <<>>,
      errors |-> <<<<"Undefined variable '">> \o <<"u">> \o <<"'.">>>>],
     [text |->
        <<"v", "a", "r", " ", "a", " ", "=", " ", "0", ";", " ", "v", "a",
          "r", " ", "b", " ", "=", " ", "0", ";", " ", "f", "u", "n", " ",
          "f", "(", "x", ",", " ", "y", ")", " ", "{", " ", "p", "r", "i",
          "n", "t", " ", "x", ";", " ", "p", "r", "i", "n", "t", " ", "y",
          ";", " ", "}", "\n", "f", "(", "a", " ", "=", " ", "1", ",", " ",
          "b", " ", "=", " ", "2", ",", " ", "a", " ", "=", " ", "3", ")",
          ";", "\n">>,
      a |-> 3, b |-> 2, frames |-> 1,
      prints |-> <<>>,
      errors |-> <<<<"E", "x", "p", "e", "c", "t", "e", "d", " ", "2", " ",
                        "a", "r", "g", "u", "m", "e", "n", "t", "s", ",", " ",
                        "b", "u", "t", " ", "g", "o", "t", " ", "3", ".">>>>],
     [text |->
        <<"v", "a", "r", " ", "a", " ", "=", " ", "0", ";", " ", "v", "a",
          "r", " ", "b", " ", "=", " ", "0", ";", " ", "f", "u", "n", " ",
          "f", "(", "x", ",", " ", "y", ")", " ", "{", " ", "p", "r", "i",
          "n", "t", " ", "x", ";", " ", "p", "r", "i", "n", "t", " ", "y",
          ";", " ", "}", "\n", "c", "l", "o", "c", "k", "(", ")", ";", "\n">>,
      a |-> 0, b |-> 0, frames |-> 1,
      prints |-> <<>>,
      errors |-> <<>>],
     [text |->
        <<"v", "a", "r", " ", "a", " ", "=", " ", "0", ";", " ", "v", "a",
          "r", " ", "b", " ", "=", " ", "0", ";", " ", "f", "u", "n", " ",
          "f", "(", "x", ",", " ", "y", ")", " ", "{", " ", "p", "r", "i",
          "n", "t", " ", "x", ";", " ", "p", "r", "i", "n", "t", " ", "y",
          ";", " ", "}", "\n", "c", "l", "o", "c", "k", "(", "a", " ", "=",
          " ", "1", ")", ";", "\n">>,
      a |-> 1, b |-> 0, frames |-> 1,
      prints |-> <<>>,
      errors |-> <<<<"E", "x", "p", "e", "c", "t", "e", "d", " ", "0", " ",
                        "a", "r", "g", "u", "m", "e", "n", "t", "s", ",", " ",
                        "b", "u", "t", " ", "g", "o", "t", " ", "1", ".">>>>],
     [text |->
        <<"v", "a", "r", " ", "a", " ", "=", " ", "0", ";", " ", "v", "a",
          "r", " ", "b", " ", "=", " ", "0", ";", " ", "f", "u", "n", " ",
          "f", "(", "x", ",", " ", "y", ")", " ", "{", " ", "p", "r", "i",
          "n", "t", " ", "x", ";", " ", "p", "r", "i", "n", "t", " ", "y",
          ";", " ", "}", "\n", "c", "l", "o", "c", "k", "(", "a", " ", "=",
          " ", "a", " ", "+", " ", "1", ",", " ", "b", " ", "=", " ", "a",
          " ", "+", " ", "1", ")", ";", "\n">>,
      a |-> 1, b |-> 2, frames |-> 1,
      prints |-> <<>>,
      errors |-> <<<<"E", "x", "p", "e", "c", "t", "e", "d", " ", "0", " ",
                        "a", "r", "g", "u", "m", "e", "n", "t", "s", ",", " ",
                        "b", "u", "t", " ", "g", "o", "t", " ", "2", ".">>>>],
     [text |->
        <<"v", "a", "r", " ", "a", " ", "=", " ", "0", ";", " ", "v", "a",
          "r", " ", "b", " ", "=", " ", "0", ";", " ", "f", "u", "n", " ",
          "f", "(", "x", ",", " ", "y", ")", " ", "{", " ", "p", "r", "i",
          "n", "t", " ", "x", ";", " ", "p", "r", "i", "n", "t", " ", "y",
          ";", " ", "}", "\n", "c", "l", "o", "c", "k", "(", "a", " ", "=",
          " ", "1", ",", " ", "a", " ", "=", " ", "2", ")", ";", "\n">>,
      a |-> 2, b |-> 0, frames |-> 1,
      prints |-> <<>>,
      errors |-> <<<<"E", "x", "p", "e", "c", "t", "e", "d", " ", "0", " ",
                        "a", "r", "g", "u", "m", "e", "n", "t", "s", ",", " ",
                        "b", "u", "t", " ", "g", "o", "t", " ", "2", ".">>>>],
     [text |->
        <<"v", "a", "r", " ", "a", " ", "=", " ", "0", ";", " ", "v", "a",
          "r", " ", "b", " ", "=", " ", "0", ";", " ", "f", "u", "n", " ",
          "f", "(", "x", ",", " ", "y", ")", " ", "{", " ", "p", "r", "i",
          "n", "t", " ", "x", ";", " ", "p", "r", "i", "n", "t", " ", "y",
          ";", " ", "}", "\n", "c", "l", "o", "c", "k", "(", "a", " ", "=",
          " ", "1", ",", " ", "u", ",", " ", "b", " ", "=", " ", "2", ")",
          ";", "\n">>,
      a |-> 1, b |-> 0, frames |-> 1,
      prints |-> <<>>,
      errors |-> <<<<"Undefined variable '">> \o <<"u">> \o <<"'.">>>>],
     [text |->
        <<"v", "a", "r", " ", "a", " ", "=", " ", "0", ";", " ", "v", "a",
          "r", " ", "b", " ", "=", " ", "0", ";", " ", "f", "u", "n", " ",
          "f", "(", "x", ",", " ", "y", ")", " ", "{", " ", "p", "r", "i",
          "n", "t", " ", "x", ";", " ", "p", "r", "i", "n", "t", " ", "y",
          ";", " ", "}", "\n", "c", "l", "o", "c", "k", "(", "a", " ", "=",
          " ", "1", ",", " ", "b", " ", "=", " ", "2", ",", " ", "a", " ",
          "=", " ", "3", ")", ";", "\n">>,
      a |-> 3, b |-> 2, frames |-> 1,
      prints |-> <<>>,
      errors |-> <<<<"E", "x", "p", "e", "c", "t", "e", "d", " ", "0", " ",
                        "a", "r", "g", "u", "m", "e", "n", "t", "s", ",", " ",
                        "b", "u", "t", " ", "g", "o", "t", " ", "3", ".">>>>],
     [text |->
        <<"v", "a", "r", " ", "a", " ", "=", " ", "0", ";", " ", "v", "a",
          "r", " ", "b", " ", "=", " ", "0", ";", " ", "f", "u", "n", " ",
          "f", "(", "x", ",", " ", "y", ")", " ", "{", " ", "p", "r", "i",
          "n", "t", " ", "x", ";", " ", "p", "r", "i", "n", "t", " ", "y",
          ";", " ", "}", "\n", "a", "(", ")", ";", "\n">>,
      a |-> 0, b |-> 0, frames |-> 1,
      prints |-> <<>>,
      errors |-> <<<<"C", "a", "n", " ", "o", "n", "l", "y", " ", "c", "a",
                        "l", "l", " ", "f", "u", "n", "c", "t", "i", "o", "n",
                        "s", " ", "a", "n", "d", " ", "c", "l", "a", "s", "s",
                        "e", "s", ".">>>>],
     [text |->
        <<"v", "a", "r", " ", "a", " ", "=", " ", "0", ";", " ", "v", "a",
          "r", " ", "b", " ", "=", " ", "0", ";", " ", "f", "u", "n", " ",
          "f", "(", "x", ",", " ", "y", ")", " ", "{", " ", "p", "r", "i",
          "n", "t", " ", "x", ";", " ", "p", "r", "i", "n", "t", " ", "y",
          ";", " ", "}", "\n", "a", "(", "a", " ", "=", " ", "1", ")", ";",
          "\n">>,
      a |-> 1, b |-> 0, frames |-> 1,
      prints |-> <<>>,
      errors |-> <<<<"C", "a", "n", " ", "o", "n", "l", "y", " ", "c", "a",
                        "l", "l", " ", "f", "u", "n", "c", "t", "i", "o", "n",
                        "s", " ", "a", "n", "d", " ", "c", "l", "a", "s", "s",
                        "e", "s", ".">>>>],
     [text |->
        <<"v", "a", "r", " ", "a", " ", "=", " ", "0", ";", " ", "v", "a",
          "r", " ", "b", " ", "=", " ", "0", ";", " ", "f", "u", "n", " ",
          "f", "(", "x", ",", " ", "y", ")", " ", "{", " ", "p", "r", "i",
          "n", "t", " ", "x", ";", " ", "p", "r", "i", "n", "t", " ", "y",
          ";", " ", "}", "\n", "a", "(", "a", " ", "=", " ", "a", " ", "+",
          " ", "1", ",", " ", "b", " ", "=", " ", "a", " ", "+", " ", "1",
          ")", ";", "\n">>,
      a |-> 1, b |-> 2, frames |-> 1,
      prints |-> <<>>,
      errors |-> <<<<"C", "a", "n", " ", "o", "n", "l", "y", " ", "c", "a",
                        "l", "l", " ", "f", "u", "n", "c", "t", "i", "o", "n",
                        "s", " ", "a", "n", "d", " ", "c", "l", "a", "s", "s",
                        "e", "s", ".">>>>],
     [text |->
        <<"v", "a", "r", " ", "a", " ", "=", " ", "0", ";", " ", "v", "a",
          "r", " ", "b", " ", "=", " ", "0", ";", " ", "f", "u", "n", " ",
          "f", "(", "x", ",", " ", "y", ")", " ", "{", " ", "p", "r", "i",
          "n", "t", " ", "x", ";", " ", "p", "r", "i", "n", "t", " ", "y",
          ";", " ", "}", "\n", "a", "(", "a", " ", "=", " ", "1", ",", " ",
          "a", " ", "=", " ", "2", ")", ";", "\n">>,
      a |-> 2, b |-> 0, frames |-> 1,
      prints |-> <<>>,
      errors |-> <<<<"C", "a", "n", " ", "o", "n", "l", "y", " ", "c", "a",
                        "l", "l", " ", "f", "u", "n", "c", "t", "i", "o", "n",
                        "s", " ", "a", "n", "d", " ", "c", "l", "a", "s", "s",
                        "e", "s", ".">>>>],
     [text |->
        <<"v", "a", "r", " ", "a", " ", "=", " ", "0", ";", " ", "v", "a",
          "r", " ", "b", " ", "=", " ", "0", ";", " ", "f", "u", "n", " ",
          "f", "(", "x", ",", " ", "y", ")", " ", "{", " ", "p", "r", "i",
          "n", "t", " ", "x", ";", " ", "p", "r", "i", "n", "t", " ", "y",
          ";", " ", "}", "\n", "a", "(", "a", " ", "=", " ", "1", ",", " ",
          "u", ",", " ", "b", " ", "=", " ", "2", ")", ";", "\n">>,
      a |-> 1, b |-> 0, frames |-> 1,
      prints |-> <<>>,
      errors |-> <<<<"Undefined variable '">> \o <<"u">> \o <<"'.">>>>],
     [text |->
        <<"v", "a", "r", " ", "a", " ", "=", " ", "0", ";", " ", "v", "a",
          "r", " ", "b", " ", "=", " ", "0", ";", " ", "f", "u", "n", " ",
          "f", "(", "x", ",", " ", "y", ")", " ", "{", " ", "p", "r", "i",
          "n", "t", " ", "x", ";", " ", "p", "r", "i", "n", "t", " ", "y",
          ";", " ", "}", "\n", "a", "(", "a", " ", "=", " ", "1", ",", " ",
          "b", " ", "=", " ", "2", ",", " ", "a", " ", "=", " ", "3", ")",
          ";", "\n">>,
      a |-> 3, b |-> 2, frames |-> 1,
      prints |-> <<>>,
      errors |-> <<<<"C", "a", "n", " ", "o", "n", "l", "y", " ", "c", "a",
                        "l", "l", " ", "f", "u", "n", "c", "t", "i", "o", "n",
                        "s", " ", "a", "n", "d", " ", "c", "l", "a", "s", "s",
                        "e", "s", ".">>>>],
     [text |->
        <<"v", "a", "r", " ", "a", " ", "=", " ", "0", ";", " ", "v", "a",
          "r", " ", "b", " ", "=", " ", "0", ";", " ", "f", "u", "n", " ",
          "f", "(", "x", ",", " ", "y", ")", " ", "{", " ", "p", "r", "i",
          "n", "t", " ", "x", ";", " ", "p", "r", "i", "n", "t", " ", "y",
          ";", " ", "}", "\n", "\"", "s", "\"", "(", ")", ";", "\n">>,
      a |-> 0, b |-> 0, frames |-> 1,
      prints |-> <<>>,
      errors |-> <<<<"C", "a", "n", " ", "o", "n", "l", "y", " ", "c", "a",
                        "l", "l", " ", "f", "u", "n", "c", "t", "i", "o", "n",
                        "s", " ", "a", "n", "d", " ", "c", "l", "a", "s", "s",
                        "e", "s", ".">>>>],
     [text |->
        <<"v", "a", "r", " ", "a", " ", "=", " ", "0", ";", " ", "v", "a",
          "r", " ", "b", " ", "=", " ", "0", ";", " ", "f", "u", "n", " ",
          "f", "(", "x", ",", " ", "y", ")", " ", "{", " ", "p", "r", "i",
          "n", "t", " ", "x", ";", " ", "p", "r", "i", "n", "t", " ", "y",
          ";", " ", "}", "\n", "\"", "s", "\"", "(", "a", " ", "=", " ", "1",
          ")", ";", "\n">>,
      a |-> 1, b |-> 0, frames |-> 1,
      prints |-> <<>>,
      errors |-> <<<<"C", "a", "n", " ", "o", "n", "l", "y", " ", "c", "a",
                        "l", "l", " ", "f", "u", "n", "c", "t", "i", "o", "n",
                        "s", " ", "a", "n", "d", " ", "c", "l", "a", "s", "s",
                        "e", "s", ".">>>>],
     [text |->
        <<"v", "a", "r", " ", "a", " ", "=", " ", "0", ";", " ", "v", "a",
          "r", " ", "b", " ", "=", " ", "0", ";", " ", "f", "u", "n", " ",
          "f", "(", "x", ",", " ", "y", ")", " ", "{", " ", "p", "r", "i",
          "n", "t", " ", "x", ";", " ", "p", "r", "i", "n", "t", " ", "y",
          ";", " ", "}", "\n", "\"", "s", "\"", "(", "a", " ", "=", " ", "a",
          " ", "+", " ", "1", ",", " ", "b", " ", "=", " ", "a", " ", "+",
          " ", "1", ")", ";", "\n">>,
      a |-> 1, b |-> 2, frames |-> 1,
      prints |-> <<>>,
      errors |-> <<<<"C", "a", "n", " ", "o", "n", "l", "y", " ", "c", "a",
                        "l", "l", " ", "f", "u", "n", "c", "t", "i", "o", "n",
                        "s", " ", "a", "n", "d", " ", "c", "l", "a", "s", "s",
                        "e", "s", ".">>>>],
     [text |->
        <<"v", "a", "r", " ", "a", " ", "=", " ", "0", ";", " ", "v", "a",
          "r", " ", "b", " ", "=", " ", "0", ";", " ", "f", "u", "n", " ",
          "f", "(", "x", ",", " ", "y", ")", " ", "{", " ", "p", "r", "i",
          "n", "t", " ", "x", ";", " ", "p", "r", "i", "n", "t", " ", "y",
          ";", " ", "}", "\n", "\"", "s", "\"", "(", "a", " ", "=", " ", "1",
          ",", " ", "a", " ", "=", " ", "2", ")", ";", "\n">>,
      a |-> 2, b |-> 0, frames |-> 1,
      prints |-> <<>>,
      errors |-> <<<<"C", "a", "n", " ", "o", "n", "l", "y", " ", "c", "a",
                        "l", "l", " ", "f", "u", "n", "c", "t", "i", "o", "n",
                        "s", " ", "a", "n", "d", " ", "c", "l", "a", "s", "s",
                        "e", "s", ".">>>>],
     [text |->
        <<"v", "a", "r", " ", "a", " ", "=", " ", "0", ";", " ", "v", "a",
          "r", " ", "b", " ", "=", " ", "0", ";", " ", "f", "u", "n", " ",
          "f", "(", "x", ",", " ", "y", ")", " ", "{", " ", "p", "r", "i",
          "n", "t", " ", "x", ";", " ", "p", "r", "i", "n", "t", " ", "y",
          ";", " ", "}", "\n", "\"", "s", "\"", "(", "a", " ", "=", " ", "1",
          ",", " ", "u", ",", " ", "b", " ", "=", " ", "2", ")", ";", "\n">>,
      a |-> 1, b |-> 0, frames |-> 1,
      prints |-> <<>>,
      errors |-> <<<<"Undefined variable '">> \o <<"u">> \o <<"'.">>>>],
     [text |->
        <<"v", "a", "r", " ", "a", " ", "=", " ", "0", ";", " ", "v", "a",
          "r", " ", "b", " ", "=", " ", "0", ";", " ", "f", "u", "n", " ",
          "f", "(", "x", ",", " ", "y", ")", " ", "{", " ", "p", "r", "i",
          "n", "t", " ", "x", ";", " ", "p", "r", "i", "n", "t", " ", "y",
          ";", " ", "}", "\n", "\"", "s", "\"", "(", "a", " ", "=", " ", "1",
          ",", " ", "b", " ", "=", " ", "2", ",", " ", "a", " ", "=", " ",
          "3", ")", ";", "\n">>,
      a |-> 3, b |-> 2, frames |-> 1,
      prints |-> <<>>,
      errors |-> <<<<"C", "a", "n", " ", "o", "n", "l", "y", " ", "c", "a",
                        "l", "l", " ", "f", "u", "n", "c", "t", "i", "o", "n",
                        "s", " ", "a", "n", "d", " ", "c", "l", "a", "s", "s",
                        "e", "s", ".">>>>],
     [text |->
        <<"v", "a", "r", " ", "a", " ", "=", " ", "0", ";", " ", "v", "a",
          "r", " ", "b", " ", "=", " ", "0", ";", " ", "f", "u", "n", " ",
          "f", "(", "x", ",", " ", "y", ")", " ", "{", " ", "p", "r", "i",
          "n", "t", " ", "x", ";", " ", "p", "r", "i", "n", "t", " ", "y",
          ";", " ", "}", "\n", "g", "(", ")", ";", "\n">>,
      a |-> 0, b |-> 0, frames |-> 1,
      prints |-> <<>>,
      errors |-> <<<<"Undefined variable '">> \o <<"g">> \o <<"'.">>>>],
     [text |->
        <<"v", "a", "r", " ", "a", " ", "=", " ", "0", ";", " ", "v", "a",
          "r", " ", "b", " ", "=", " ", "0", ";", " ", "f", "u", "n", " ",
          "f", "(", "x", ",", " ", "y", ")", " ", "{", " ", "p", "r", "i",
          "n", "t", " ", "x", ";", " ", "p", "r", "i", "n", "t", " ", "y",
          ";", " ", "}", "\n", "g", "(", "a", " ", "=", " ", "1", ")", ";",
          "\n">>,
      a |-> 0, b |-> 0, frames |-> 1,
      prints |-> <<>>,
      errors |-> <<<<"Undefined variable '">> \o <<"g">> \o <<"'.">>>>],
     [text |->
        <<"v", "a", "r", " ", "a", " ", "=", " ", "0", ";", " ", "v", "a",
          "r", " ", "b", " ", "=", " ", "0", ";", " ", "f", "u", "n", " ",
          "f", "(", "x", ",", " ", "y", ")", " ", "{", " ", "p", "r", "i",
          "n", "t", " ", "x", ";", " ", "p", "r", "i", "n", "t", " ", "y",
          ";", " ", "}", "\n", "g", "(", "a", " ", "=", " ", "a", " ", "+",
          " ", "1", ",", " ", "b", " ", "=", " ", "a", " ", "+", " ", "1",
          ")", ";", "\n">>,
      a |-> 0, b |-> 0, frames |-> 1,
      prints |-> <<>>,
      errors |-> <<<<"Undefined variable '">> \o <<"g">> \o <<"'.">>>>],
     [text |->
        <<"v", "a", "r", " ", "a", " ", "=", " ", "0", ";", " ", "v", "a",
          "r", " ", "b", " ", "=", " ", "0", ";", " ", "f", "u", "n", " ",
          "f", "(", "x", ",", " ", "y", ")", " ", "{", " ", "p", "r", "i",
          "n", "t", " ", "x", ";", " ", "p", "r", "i", "n", "t", " ", "y",
          ";", " ", "}", "\n", "g", "(", "a", " ", "=", " ", "1", ",", " ",
          "a", " ", "=", " ", "2", ")", ";", "\n">>,
      a |-> 0, b |-> 0, frames |-> 1,
      prints |-> <<>>,
      errors |-> <<<<"Undefined variable '">> \o <<"g">> \o <<"'.">>>>],
     [text |->
        <<"v", "a", "r", " ", "a", " ", "=", " ", "0", ";", " ", "v", "a",
          "r", " ", "b", " ", "=", " ", "0", ";", " ", "f", "u", "n", " ",
          "f", "(", "x", ",", " ", "y", ")", " ", "{", " ", "p", "r", "i",
          "n", "t", " ", "x", ";", " ", "p", "r", "i", "n", "t", " ", "y",
          ";", " ", "}", "\n", "g", "(", "a", " ", "=", " ", "1", ",", " ",
          "u", ",", " ", "b", " ", "=", " ", "2", ")", ";", "\n">>,
      a |-> 0, b |-> 0, frames |-> 1,
      prints |-> <<>>,
      errors |-> <<<<"Undefined variable '">> \o <<"g">> \o <<"'.">>>>],
     [text |->
        <<"v", "a", "r", " ", "a", " ", "=", " ", "0", ";", " ", "v", "a",
          "r", " ", "b", " ", "=", " ", "0", ";", " ", "f", "u", "n", " ",
          "f", "(", "x", ",", " ", "y", ")", " ", "{", " ", "p", "r", "i",
          "n", "t", " ", "x", ";", " ", "p", "r", "i", "n", "t", " ", "y",
          ";", " ", "}", "\n", "g", "(", "a", " ", "=", " ", "1", ",", " ",
          "b", " ", "=", " ", "2", ",", " ", "a", " ", "=", " ", "3", ")",
          ";", "\n">>,
      a |-> 0, b |-> 0, frames |-> 1,
      prints |-> <<>>,
      errors |-> <<<<"Undefined variable '">> \o <<"g">> \o <<"'.">>>>]}

InitCall == \E p \in CallPrograms : InitSource(p.text)

SpecCall == InitCall /\ [][NextLoxRun]_vars

(* C28: visitCallExpr evaluates the callee, then every argument once from   *)
(* left to right, and only then checks that the callee is callable and that *)
(* the number of arguments is its arity; when a check fails the body is not *)
(* executed and no environment is created for the parameters, while the     *)
(* assignments made by the arguments remain.                                *)
C28_CallOrder ==
    \A p \in CallPrograms :
        (source = p.text /\ pc \in {"returned", "raised"}) =>
            /\ pc = "returned"
            /\ reports = <<>>
            /\ envs[1].values[<<"a">>] = Num(p.a, 1)
            /\ envs[1].values[<<"b">>] = Num(p.b, 1)
            /\ output = p.prints
            /\ Len(envs) = p.frames
            /\ Len(runtimeReports) = Len(p.errors)
            /\ \A k \in 1..Len(p.errors) :
                  runtimeReports[k] = [line |-> 2, message |-> p.errors[k]]

(* the number a was called with two assignments: both were made, then the   *)
(* callee was rejected and no frame created                                 *)
C28_Witness ==
    /\ pc = "returned"
    /\ tokens[26].lexeme = <<"a">>
    /\ tokens[27].type = "LEFT_PAREN"
    /\ envs[1].values[<<"a">>] = Num(1, 1)
    /\ envs[1].values[<<"b">>] = Num(2, 1)
    /\ Len(envs) = 1
    /\ output = <<>>
    /\ Len(runtimeReports) = 1

(* f was called with two arguments, evaluated once each and in order *)
C28_WitnessCalled ==
    /\ pc = "returned"
    /\ tokens[26].lexeme = <<"f">>
    /\ output = <<<<"1">>, <<"2">>>>
    /\ Len(envs) = 2
    /\ runtimeReports = <<>>

----------------------------------------------------------------------------
(* Resolver.resolveStatements on the statements of one source, called on a  *)
(* resolver that is in the middle of a resolution: its scope stack holds at *)
(* most MaxHeight scopes, and it is inside a function or not. The sources   *)
(* hold blocks, functions and classes, nested in each other, classes with   *)
(* a superclass, classes with methods and a function returning a value      *)
(* (on which the resolver raises), and static errors.                       *)

MaxHeight == 2

StackSources ==
    {<<"v", "a", "r", " ", "v", " ", "=", " ", "1", ";", " ", "{", " ", "v",
       "a", "r", " ", "a", " ", "=", " ", "v", ";", " ", "{", " ", "v", "a",
       "r", " ", "b", " ", "=", " ", "a", ";", " ", "}", " ", "p", "r", "i",
       "n", "t", " ", "a", ";", " ", "}">>,
     <<"{", " ", "v", "a", "r", " ", "a", " ", "=", " ", "1", ";", " ", "}",
       " ", "{", " ", "v", "a", "r", " ", "b", " ", "=", " ", "2", ";", " ",
       "}">>,
     <<"f", "u", "n", " ", "f", "(", "x", ")", " ", "{", " ", "{", " ", "v",
       "a", "r", " ", "y", " ", "=", " ", "x", ";", " ", "}", " ", "f", "u",
       "n", " ", "g", "(", ")", " ", "{", " ", "r", "e", "t", "u", "r", "n",
       ";", " ", "}", " ", "g", "(", ")", ";", " ", "}">>,
     <<"f", "u", "n", " ", "f", "(", ")", " ", "{", " ", "}", " ", "{", " ",
       "f", "u", "n", " ", "g", "(", "a", ",", " ", "b", ")", " ", "{", " ",
       "{", " ", "f", "(", ")", ";", " ", "}", " ", "}", " ", "}">>,
     <<"c", "l", "a", "s", "s", " ", "A", " ", "{", " ", "}">>,
     <<"c", "l", "a", "s", "s", " ", "A", " ", "{", " ", "}", " ", "c", "l",
       "a", "s", "s", " ", "B", " ", "<", " ", "A", " ", "{", " ", "}">>,
     <<"{", " ", "c", "l", "a", "s", "s", " ", "A", " ", "{", " ", "}", " ",
       "f", "u", "n", " ", "h", "(", ")", " ", "{", " ", "c", "l", "a", "s",
       "s", " ", "B", " ", "<", " ", "A", " ", "{", " ", "}", " ", "{", " ",
       "c", "l", "a", "s", "s", " ", "C", " ", "{", " ", "}", " ", "}", " ",
       "}", " ", "}">>,
     <<"c", "l", "a", "s", "s", " ", "A", " ", "<", " ", "A", " ", "{", " ",
       "}">>,
     <<"c", "l", "a", "s", "s", " ", "A", " ", "{", " ", "m", "(", ")", " ",
       "{", " ", "}", " ", "}">>,
     <<"c", "l", "a", "s", "s", " ", "A", " ", "{", " ", "}", " ", "c", "l",
       "a", "s", "s", " ", "B", " ", "<", " ", "A", " ", "{", " ", "i", "n",
       "i", "t", "(", ")", " ", "{", " ", "}", " ", "}">>,
     <<"f", "u", "n", " ", "r", "(", ")", " ", "{", " ", "r", "e", "t", "u",
       "r", "n", " ", "1", ";", " ", "}">>,
     <<"{", " ", "v", "a", "r", " ", "d", " ", "=", " ", "d", ";", " ", "v",
       "a", "r", " ", "d", ";", " ", "}">>,
     <<"r", "e", "t", "u", "r", "n", ";">>,
     <<"w", "h", "i", "l", "e", " ", "(", "a", ")", " ", "{", " ", "i", "f",
       " ", "(", "b", ")", " ", "{", " ", "p", "r", "i", "n", "t", " ", "a",
       ";", " ", "}", " ", "e", "l", "s", "e", " ", "{", " ", "v", "a", "r",
       " ", "c", ";", " ", "}", " ", "}">>}

(* a scope: the names declared in it, with whether they are defined *)
StackScopes == {<<>>, Put(Put(<<>>, <<"a">>, TRUE), <<"f">>, TRUE)}

InitStack ==
    /\ \E text \in StackSources : source = text
    /\ start = 0
    /\ current = 0
    /\ line = 1
    /\ tokens = <<>>
    /\ pcurrent = 0
    /\ statements = <<>>
    /\ pc = "scanTokens"
    /\ exc = "none"
    /\ reports = <<>>
    /\ hadErrorCls = FALSE
    /\ hadErrorSelf = FALSE
    /\ hadRuntimeErrorCls = FALSE
    /\ runtimeReports = <<>>
    /\ exitCode = <<>>
    /\ locals = <<>>
    /\ envs = <<[Environment(0) EXCEPT !.values = Put(@, <<"c", "l", "o", "c", "k">>, Clock)]>>
    /\ instances = <<>>
    /\ output = <<>>
    /\ interpretCalls = 0
    /\ \E scopes \in Strings(StackScopes, MaxHeight) :
          \E kind \in (IF scopes = <<>> THEN {"NONE"} ELSE FunctionType) :
             resolver = [scopes |-> scopes, currentFunction |-> kind,
                         currentClass |-> "NONE"]

(* resolver.resolveStatements(statements) *)
ResolveStatementsCall ==
    /\ pc = "parsed"
    /\ LET resolved(r) ==
               /\ locals' = r.locals
               /\ reports' = r.reports
               /\ hadErrorCls' = r.hadError
               /\ exc' = r.exc
               /\ resolver' = [scopes |-> r.scopes, currentFunction |-> r.currentFunction,
                               currentClass |-> r.currentClass]
               /\ pc' = IF r.exc = "none" THEN "resolved" ELSE "raised"
       IN resolved(resolveStatements(
              [ResolverState EXCEPT !.scopes = resolver.scopes,
                                    !.currentFunction = resolver.currentFunction,
                                    !.currentClass = resolver.currentClass],
              statements))
    /\ UNCHANGED <<scanVars, tokens, parseVars, loxVars, envs, instances, output,
                   interpretCalls>>

NextStack ==
    \/ ScanToken
    \/ ScanEOF
    \/ NewParser
    \/ ParseDeclaration
    \/ ParseReturn
    \/ ResolveStatementsCall

SpecStack == InitStack /\ [][NextStack]_vars

(* C29: when the resolution of blocks, functions and classes returns, the   *)
(* height of the scope stack, currentFunction and currentClass are what     *)
(* they were when it started; started on a new resolver, it leaves the      *)
(* stack empty, currentFunction NONE and currentClass NONE.                 *)
C29_StackDiscipline ==
    [][(pc = "parsed" /\ exc' = "none") =>
          /\ Len(resolver'.scopes) = Len(resolver.scopes)
          /\ resolver'.currentFunction = resolver.currentFunction
          /\ resolver'.currentClass = resolver.currentClass
          /\ (resolver = NewResolver => resolver' = NewResolver)]_vars

(* a block holding a class, and a function holding a subclass and a block   *)
(* with a class, resolved inside a function at height 2: back at height 2   *)
(* inside the function, with one name added to the top scope                *)
C29_Witness ==
    /\ pc = "resolved"
    /\ Len(statements) = 1
    /\ statements[1].t = "Block"
    /\ Len(statements[1].statements) = 2
    /\ statements[1].statements[1].t = "Class"
    /\ Len(resolver.scopes) = 2
    /\ resolver.currentFunction = "FUNCTION"
    /\ resolver.currentClass = "NONE"
    /\ locals # <<>>

(* two classes at top level, the second with a superclass, on a new         *)
(* resolver: the two scopes of the subclass are gone                        *)
C29_WitnessTopLevel ==
    /\ pc = "resolved"
    /\ Len(statements) = 2
    /\ statements[2].t = "Class"
    /\ statements[2].superclass # NoneNode
    /\ resolver = NewResolver

----------------------------------------------------------------------------
(* Lox().run on the sources made of at most MaxBlockLines of these lines,   *)
(* each with the lines it prints when every block and function body leaves  *)
(* self.env as it found it, and whether it ends the run: a name is read     *)
(* after an inner block that shadows it, after a call that returns from     *)
(* inside a block or a loop, and after a call made from an inner block; a   *)
(* runtime error is raised two blocks deep and inside a call; a return      *)
(* statement stands in a block outside any function; a global is defined.   *)

MaxBlockLines == 2

BlockStatements ==
    {[text |->
        <<"{", " ", "v", "a", "r", " ", "a", " ", "=", " ", "1", ";", " ",
          "{", " ", "v", "a", "r", " ", "a", " ", "=", " ", "2", ";", " ",
          "p", "r", "i", "n", "t", " ", "a", ";", " ", "}", " ", "p", "r",
          "i", "n", "t", " ", "a", ";", " ", "}">>,
      prints |-> <<<<"2">>, <<"1">>>>, aborts |-> FALSE],
     [text |->
        <<"{", " ", "v", "a", "r", " ", "a", " ", "=", " ", "1", ";", " ",
          "f", "u", "n", " ", "f", "(", ")", " ", "{", " ", "v", "a", "r",
          " ", "a", " ", "=", " ", "2", ";", " ", "{", " ", "r", "e", "t",
          "u", "r", "n", ";", " ", "}", " ", "}", " ", "f", "(", ")", ";",
          " ", "p", "r", "i", "n", "t", " ", "a", ";", " ", "}">>,
      prints |-> <<<<"1">>>>, aborts |-> FALSE],
     [text |->
        <<"{", " ", "v", "a", "r", " ", "a", " ", "=", " ", "1", ";", " ",
          "f", "u", "n", " ", "g", "(", "a", ")", " ", "{", " ", "w", "h",
          "i", "l", "e", " ", "(", "t", "r", "u", "e", ")", " ", "{", " ",
          "i", "f", " ", "(", "a", " ", ">", " ", "1", ")", " ", "r", "e",
          "t", "u", "r", "n", ";", " ", "a", " ", "=", " ", "a", " ", "+",
          " ", "1", ";", " ", "}", " ", "}", " ", "g", "(", "0", ")", ";",
          " ", "p", "r", "i", "n", "t", " ", "a", ";", " ", "}">>,
      prints |-> <<<<"1">>>>, aborts |-> FALSE],
     [text |->
        <<"{", " ", "v", "a", "r", " ", "a", " ", "=", " ", "1", ";", " ",
          "f", "u", "n", " ", "k", "(", ")", " ", "{", " ", "r", "e", "t",
          "u", "r", "n", ";", " ", "}", " ", "{", " ", "v", "a", "r", " ",
          "a", " ", "=", " ", "2", ";", " ", "k", "(", ")", ";", " ", "p",
          "r", "i", "n", "t", " ", "a", ";", " ", "}", " ", "p", "r", "i",
          "n", "t", " ", "a", ";", " ", "}">>,
      prints |-> <<<<"2">>, <<"1">>>>, aborts |-> FALSE],
     [text |->
        <<"{", " ", "v", "a", "r", " ", "a", " ", "=", " ", "1", ";", " ",
          "{", " ", "v", "a", "r", " ", "b", " ", "=", " ", "2", ";", " ",
          "{", " ", "p", "r", "i", "n", "t", " ", "a", " ", "+", " ", "b",
          ";", " ", "p", "r", "i", "n", "t", " ", "-", "\"", "s", "\"", ";",
          " ", "}", " ", "}", " ", "p", "r", "i", "n", "t", " ", "a", ";",
          " ", "}">>,
      prints |-> <<<<"3">>>>, aborts |-> TRUE],
     [text |->
        <<"{", " ", "v", "a", "r", " ", "a", " ", "=", " ", "1", ";", " ",
          "f", "u", "n", " ", "h", "(", ")", " ", "{", " ", "{", " ", "p",
          "r", "i", "n", "t", " ", "a", ";", " ", "u", ";", " ", "}", " ",
          "}", " ", "h", "(", ")", ";", " ", "p", "r", "i", "n", "t", " ",
          "2", ";", " ", "}">>,
      prints |-> <<<<"1">>>>, aborts |-> TRUE],
     [text |->
        <<"{", " ", "{", " ", "r", "e", "t", "u", "r", "n", ";", " ", "}",
          " ", "}">>,
      prints |-> <<>>, aborts |-> TRUE],
     [text |->
        <<"v", "a", "r", " ", "z", " ", "=", " ", "0", ";", " ", "p", "r",
          "i", "n", "t", " ", "z", ";">>,
      prints |-> <<<<"0">>>>, aborts |-> FALSE]}

InitBlock ==
    \E ls \in Strings(BlockStatements, MaxBlockLines) :
        InitSource(Lines([k \in 1..Len(ls) |-> ls[k].text]))

SpecBlock == InitBlock /\ [][NextLoxRun]_vars

(* what the lines print: those of each line up to the first that ends the run *)
RECURSIVE Printed(_)
Printed(ls) ==
    IF ls = <<>> THEN <<>>
    ELSE Head(ls).prints \o (IF Head(ls).aborts THEN <<>> ELSE Printed(Tail(ls)))

(* C30: executeBlock leaves self.env as it was on every exit, normal, by a  *)
(* return or by an error: the statements after a block or a call find their *)
(* names in the frame they were resolved for, and after interpret self.env  *)
(* is the global environment.                                               *)
C30_EnvRestored ==
    /\ (pc = "resolved") => interpret(InterpreterState, statements).env = 1
    /\ (pc \in {"returned", "raised"}) =>
          \A ls \in Strings(BlockStatements, MaxBlockLines) :
              (source = Lines([k \in 1..Len(ls) |-> ls[k].text])) => output = Printed(ls)

(* a runtime error was raised inside a block inside a call and reported,    *)
(* after the shadowing blocks of the first line had printed 2 and 1         *)
C30_Witness ==
    /\ pc = "returned"
    /\ output = <<<<"2">>, <<"1">>, <<"1">>>>
    /\ Len(runtimeReports) = 1
    /\ runtimeReports[1].message = <<"Undefined variable '">> \o <<"u">> \o <<"'.">>
    /\ Len(envs) > 4

(* a function returned from inside a loop in its body, and the global z     *)
(* was defined after it                                                     *)
C30_WitnessReturn ==
    /\ pc = "returned"
    /\ output = <<<<"1">>, <<"0">>>>
    /\ runtimeReports = <<>>
    /\ <<"z">> \in DOMAIN envs[1].values
    /\ \E k \in 1..Len(tokens) : tokens[k].type = "WHILE"

====
